---- MODULE Spec2Model ----
(***************************************************************************)
(* Commerce ledger of the quimexar application: cash sessions (caja),      *)
(* point of sale (ventas), delivery orders (pedidos) and invoicing         *)
(* (facturacion), as several browser clients run them against one shared   *)
(* document store.                                                         *)
(*                                                                         *)
(* A stored document is a function from field names to values, so that a   *)
(* field can be absent.  A collection is a function from document ids to   *)
(* documents.  Every await of a handler is a step boundary: what a handler *)
(* does between two awaits is one action.  Handlers are modelled as the    *)
(* operations of the ledger; the dialogs and buttons that expose them are  *)
(* presentation and are not modelled.  The fields user, openingTime,       *)
(* timestamp, date, names and item lists of the documents are left out:    *)
(* no handler modelled here reads them.                                    *)
(***************************************************************************)
EXTENDS Integers, Sequences, FiniteSets, TLC

VARIABLES
    cajaSessions,   \* collection "caja-sessions"
    cajaHistory,    \* collection "caja-history"
    products,       \* collection "products"
    orders,         \* collection "orders"
    billableItems,  \* collection "billable-items"
    invoices,       \* collection "invoices"
    usedIds,        \* document ids the store has generated so far
    now,            \* Date.now(), as a logical clock
    pc,             \* per client: the await its running handler is at
    arg,            \* per client: the locals of its running handler
    session,        \* per client: CajaPage state `session` (<<>> is null)
    cart,           \* per client: VentasPage state `cart`
    ordersView,     \* per client: PedidosPage state `orders`
    billableView,   \* per client: FacturacionPage state `billableItems`
    invoicesView,   \* per client: FacturacionPage state `invoices`
    acked,          \* appends to a session that were reported as successful
    attempt,        \* per client: record of its last sale/collection/invoice attempt
    supplierOrders,     \* collection "supplier-orders"
    generalStock,       \* collection "general-stock", in the order of its addDocs
    supplierOrdersView, \* per client: PedidosProveedoresPage state `supplierOrders`
    orderDialog,        \* per client: which of the order dialogs is open
    editingOrder,       \* per client: PedidosProveedoresPage state `editingOrder`
    orderToReceive,     \* per client: PedidosProveedoresPage state `orderToReceive`
    sellers,            \* collection "sellers"
    sellersView,        \* per client: VendedoresPage state `sellers`
    productsView,       \* per client: VendedoresPage state `products`
    assigningToSeller,  \* per client: VendedoresPage state `assigningToSeller`
    sellingForSeller,   \* per client: VendedoresPage state `sellingForSeller`
    saleCart,           \* per client: VendedoresPage state `saleCart`
    sellerForAction,    \* per client: VendedoresPage state `sellerForAction`
    notifications,      \* per client: useProvideNotifications state `notifications`
    localStorage        \* per client: the item 'app-notifications' of the browser's localStorage

vars == <<cajaSessions, cajaHistory, products, orders, billableItems, invoices,
          usedIds, now, pc, arg, session, cart, ordersView, billableView,
          invoicesView, acked, attempt, supplierOrders, generalStock,
          supplierOrdersView, orderDialog, editingOrder, orderToReceive,
          sellers, sellersView, productsView, assigningToSeller,
          sellingForSeller, saleCart, sellerForAction, notifications,
          localStorage>>

storeVars == <<cajaSessions, cajaHistory, products, orders, billableItems, invoices, usedIds>>
cajaLocal == <<session>>
posLocal == <<cart>>
pedidosLocal == <<ordersView>>
facturacionLocal == <<billableView, invoicesView>>
proveedoresLocal == <<supplierOrdersView, orderDialog, editingOrder, orderToReceive>>
proveedoresVars == <<supplierOrders, generalStock, proveedoresLocal>>
vendedoresLocal == <<sellersView, productsView, assigningToSeller, sellingForSeller,
                     saleCart, sellerForAction>>
vendedoresVars == <<sellers, vendedoresLocal>>
notificationsVars == <<notifications, localStorage>>

----------------------------------------------------------------------------
(* Bounds of the model *)

\* number of document ids the store can generate
MaxDocs == 2
\* number of Date.now() readings
MaxClock == 2

Clients == {"c1", "c2"}
AutoIds == {<<"doc", n>> : n \in 1..MaxDocs}
Amounts == {0, 100}
ExpenseAmounts == {20}
CountedInputs == {[Efectivo |-> 0, Tarjeta |-> 0, Transferencia |-> 0],
                  [Efectivo |-> 100, Tarjeta |-> 0, Transferencia |-> 0]}

\* largest quantity entered at once, and largest quantity of one cart line
MaxQty == 2
MaxCartQty == 2

Products == {"p1", "p2"}
InitStocks == {1, 5}
Price == [p1 |-> 50, p2 |-> 30]
\* the stored combos: one active combo of two p1 and one p2
ComboCatalog == [k1 |-> [price |-> 100, active |-> TRUE, products |-> [p1 |-> 2, p2 |-> 1]]]
Items == Products \cup DOMAIN ComboCatalog
ItemPrice(i) == IF i \in Products THEN Price[i] ELSE ComboCatalog[i].price
Customers == {"A", "B"}
CashMethods == {"Efectivo", "Tarjeta", "Transferencia"}

RECURSIVE SumOver(_, _)
SumOver(S, f) == IF S = {} THEN 0 ELSE LET x == CHOOSE x \in S : TRUE IN f[x] + SumOver(S \ {x}, f)

Null == "null"
NoArg == [none |-> TRUE]
NoAttempt == [kind |-> "none"]

----------------------------------------------------------------------------
(* The document store *)

Merge(d, u) == [f \in DOMAIN d \cup DOMAIN u |-> IF f \in DOMAIN u THEN u[f] ELSE d[f]]

\* addDoc / setDoc: the document `id` of the collection becomes `data`
SetDoc(coll, id, data) == [x \in DOMAIN coll \cup {id} |-> IF x = id THEN data ELSE coll[x]]

\* updateDoc: merges `u` into an existing document; the caller checks Exists
UpdateDoc(coll, id, u) == [coll EXCEPT ![id] = Merge(@, u)]

DeleteDoc(coll, id) == [x \in DOMAIN coll \ {id} |-> coll[x]]

Exists(coll, id) == id \in DOMAIN coll

\* query(collection, where(field, "==", null)): an equality filter matches only
\* documents in which the field is present
WhereEqNull(coll, field) ==
    {id \in DOMAIN coll : field \in DOMAIN coll[id] /\ coll[id][field] = Null}

\* snapshot.docs[0]: query results come ordered by document id
FirstDoc(ids) == CHOOSE i \in ids : \A j \in ids : i[2] <= j[2]

FreshIds == AutoIds \ usedIds

\* a listener's list after a write of its own client to document id: the
\* listener fires with the local write
LocalUpdate(view, id, u) == {IF o.id = id THEN Merge(o, u) ELSE o : o \in view}

\* a mapping in which the document id wins over a stored `id` field
mapDocToDocId(id, data) ==
    [f \in {"id"} \cup DOMAIN data |-> IF f = "id" THEN id ELSE data[f]]

\* mapDocTo: { id: doc.id, ...data }, a stored `id` field overrides the document id
mapDocTo(id, data) ==
    [f \in {"id"} \cup DOMAIN data |-> IF f \in DOMAIN data THEN data[f] ELSE id]

----------------------------------------------------------------------------
(* CajaPage *)

\* onSnapshot(query(collection(db, "caja-sessions")))
SessionOf(coll) ==
    IF DOMAIN coll = {} THEN <<>>
    ELSE LET d == FirstDoc(DOMAIN coll) IN <<mapDocTo(d, coll[d])>>

SessionSnapshot(c) ==
    /\ session[c] # SessionOf(cajaSessions)
    /\ session' = [session EXCEPT ![c] = SessionOf(cajaSessions)]
    /\ UNCHANGED <<notificationsVars, vendedoresVars, proveedoresVars, storeVars, now, pc, arg, posLocal, pedidosLocal, facturacionLocal,
                   acked, attempt>>

\* handleOpenBox up to its first await: getDocs of the live sessions
OpenBoxCheck(c) ==
    /\ pc[c] = "idle"
    /\ \E a \in Amounts :
         IF DOMAIN cajaSessions # {}
         THEN \* toast "Ya existe una caja activa"
              /\ attempt' = [attempt EXCEPT ![c] =
                     [kind |-> "open", outcome |-> "Ya existe una caja activa"]]
              /\ UNCHANGED <<pc, arg>>
         ELSE /\ pc' = [pc EXCEPT ![c] = "open_add"]
              /\ arg' = [arg EXCEPT ![c] = [initialAmount |-> a]]
              /\ UNCHANGED attempt
    /\ UNCHANGED <<notificationsVars, vendedoresVars, proveedoresVars, storeVars, now, cajaLocal, posLocal, pedidosLocal, facturacionLocal,
                   acked>>

\* a new session that drops the amount entered
NewSessionWithoutAmount(a) == [initialAmount |-> 0, sales |-> <<>>, expenses |-> <<>>]

\* handleOpenBox newSession
NewSession(a) == [initialAmount |-> a, sales |-> <<>>, expenses |-> <<>>]

\* handleOpenBox after the getDocs: addDoc of the new session
OpenBoxAdd(c) ==
    /\ pc[c] = "open_add"
    /\ \E id \in FreshIds :
         /\ cajaSessions' = SetDoc(cajaSessions, id, NewSession(arg[c].initialAmount))
         /\ usedIds' = usedIds \cup {id}
    \* toast "Caja Abierta"
    /\ attempt' = [attempt EXCEPT ![c] = [kind |-> "open", outcome |-> "Caja Abierta"]]
    /\ pc' = [pc EXCEPT ![c] = "idle"]
    /\ arg' = [arg EXCEPT ![c] = NoArg]
    /\ UNCHANGED <<notificationsVars, vendedoresVars, proveedoresVars, cajaHistory, products, orders, billableItems, invoices, now,
                   cajaLocal, posLocal, pedidosLocal, facturacionLocal, acked>>

\* handleAddExpense: one updateDoc that writes the whole array built from the
\* page's copy of the session
AddExpense(c) ==
    /\ pc[c] = "idle"
    /\ session[c] # <<>>
    /\ now < MaxClock
    /\ \E amt \in ExpenseAmounts :
         LET s == session[c][1]
             newExpense == [id |-> <<"EXP", now>>, amount |-> amt]
         IN  IF Exists(cajaSessions, s.id)
             THEN /\ cajaSessions' = UpdateDoc(cajaSessions, s.id,
                                       [expenses |-> Append(s.expenses, newExpense)])
                  \* toast "Gasto Registrado"
                  /\ acked' = acked \cup {[sid |-> s.id, field |-> "expenses",
                                           id |-> newExpense.id]}
             ELSE \* updateDoc throws: toast "No se pudo registrar el gasto"
                  UNCHANGED <<cajaSessions, acked>>
    /\ now' = now + 1
    /\ UNCHANGED <<notificationsVars, vendedoresVars, proveedoresVars, cajaHistory, products, orders, billableItems, invoices, usedIds,
                   pc, arg, cajaLocal, posLocal, pedidosLocal, facturacionLocal, attempt>>

ClosedSession(s, counted) ==
    Merge(s, [closingTime |-> "ISO", countedTotals |-> counted, observations |-> ""])

\* handleCloseBox up to the end of its first await: setDoc into the history.
\* A write can fail (store unreachable, permission denied); the handler catches it.
CloseBoxSet(c) ==
    /\ pc[c] = "idle"
    /\ session[c] # <<>>
    /\ \E counted \in CountedInputs, ok \in BOOLEAN :
         LET s == session[c][1] IN
         IF ok
         THEN /\ cajaHistory' = SetDoc(cajaHistory, s.id, ClosedSession(s, counted))
              /\ pc' = [pc EXCEPT ![c] = "close_delete"]
              /\ arg' = [arg EXCEPT ![c] = [sessionId |-> s.id]]
         ELSE \* toast "No se pudo cerrar la caja"
              UNCHANGED <<cajaHistory, pc, arg>>
    /\ UNCHANGED <<notificationsVars, vendedoresVars, proveedoresVars, cajaSessions, products, orders, billableItems, invoices, usedIds, now,
                   cajaLocal, posLocal, pedidosLocal, facturacionLocal, acked, attempt>>

\* handleCloseBox after the setDoc: deleteDoc of the live session
CloseBoxDelete(c) ==
    /\ pc[c] = "close_delete"
    /\ \E ok \in BOOLEAN :
         IF ok
         THEN \* toast "Caja Cerrada"
              cajaSessions' = DeleteDoc(cajaSessions, arg[c].sessionId)
         ELSE \* toast "No se pudo cerrar la caja"
              UNCHANGED cajaSessions
    /\ pc' = [pc EXCEPT ![c] = "idle"]
    /\ arg' = [arg EXCEPT ![c] = NoArg]
    /\ UNCHANGED <<notificationsVars, vendedoresVars, proveedoresVars, cajaHistory, products, orders, billableItems, invoices, usedIds, now,
                   cajaLocal, posLocal, pedidosLocal, facturacionLocal, acked, attempt>>

----------------------------------------------------------------------------
(* VentasPage: the point of sale *)

\* addToCart: no check against the product's stock
AddToCart(c) ==
    /\ pc[c] = "idle"
    /\ \E item \in Items, quantity \in 1..MaxQty :
         LET inCart == IF item \in DOMAIN cart[c] THEN cart[c][item] ELSE 0 IN
         /\ inCart + quantity <= MaxCartQty
         /\ cart' = [cart EXCEPT ![c] = SetDoc(@, item, inCart + quantity)]
    /\ UNCHANGED <<notificationsVars, vendedoresVars, proveedoresVars, storeVars, now, pc, arg, cajaLocal, pedidosLocal, facturacionLocal,
                   acked, attempt>>

\* cartSummary.total, no discount selected
CartTotal(ct) == SumOver(DOMAIN ct, [i \in DOMAIN ct |-> ItemPrice(i) * ct[i]])

\* the debit of the simple-product lines alone
DebitOfProductLines(ct, p) == IF p \in DOMAIN ct THEN ct[p] ELSE 0

\* the quantity of product p that updateStock debits for the cart
Debit(ct, p) ==
    (IF p \in DOMAIN ct THEN ct[p] ELSE 0)
    + SumOver({k \in DOMAIN ct \cap DOMAIN ComboCatalog : p \in DOMAIN ComboCatalog[k].products},
              [k \in DOMAIN ComboCatalog |->
                 IF p \in DOMAIN ComboCatalog[k].products /\ k \in DOMAIN ct
                 THEN ComboCatalog[k].products[p] * ct[k] ELSE 0])

\* updateStock: one batch of increment(-quantity) writes
UpdateStock(prods, ct) ==
    [p \in DOMAIN prods |-> [prods[p] EXCEPT !.stock = @ - Debit(ct, p)]]

\* least element of a non-empty set of integers (Math.min)
SetMin(S) == CHOOSE x \in S : \A y \in S : x <= y

\* the level one component of a combo allows: 0 if the product is not in the
\* list or has less stock than one combo needs
stockLevel(prods, p, quantity) ==
    IF p \notin DOMAIN prods \/ prods[p].stock < quantity
    THEN 0
    ELSE prods[p].stock \div quantity

\* calculateComboStock(combo) over the page's list of products
calculateComboStock(combo, prods) ==
    IF DOMAIN combo.products = {}
    THEN 0
    ELSE SetMin({stockLevel(prods, p, combo.products[p]) : p \in DOMAIN combo.products})

NewAttempt(kind, ct, method) ==
    [kind |-> kind, method |-> method, total |-> CartTotal(ct),
     before |-> [products |-> products, billable |-> DOMAIN billableItems],
     live |-> FALSE, outcome |-> "pending"]

\* handleProceed, the branch that is not a delivery: looks the live session up
\* before the payment dialog is shown
HandleProceed(c) ==
    /\ pc[c] = "idle"
    /\ DOMAIN cart[c] # {}
    /\ attempt' = [attempt EXCEPT ![c] =
            [kind |-> "proceed", live |-> DOMAIN cajaSessions # {},
             outcome |-> IF WhereEqNull(cajaSessions, "closingTime") = {}
                         THEN "Caja Cerrada" ELSE "payment dialog"]]
    /\ UNCHANGED <<notificationsVars, vendedoresVars, proveedoresVars, storeVars, now, pc, arg, cajaLocal, posLocal, pedidosLocal,
                   facturacionLocal, acked>>

\* handleFinalizeSale(paymentMethod) up to the end of `await updateStock()`
FinalizeSaleStock(c) ==
    /\ pc[c] = "idle"
    /\ \E method \in CashMethods :
         /\ attempt' = [attempt EXCEPT ![c] = NewAttempt("sale", cart[c], method)]
         /\ products' = UpdateStock(products, cart[c])
    /\ pc' = [pc EXCEPT ![c] = "register"]
    /\ UNCHANGED <<notificationsVars, vendedoresVars, proveedoresVars, cajaSessions, cajaHistory, orders, billableItems, invoices, usedIds,
                   now, arg, cajaLocal, posLocal, pedidosLocal, facturacionLocal, acked>>

\* registerSaleInCashSession(paymentMethod) and what its caller does with the
\* result.  The getDocs and the updateDoc are two awaits; they are one action
\* here because the updateDoc is reached only with a non-empty query result.
RegisterSale(c) ==
    /\ pc[c] = "register"
    /\ now < MaxClock
    /\ LET found == WhereEqNull(cajaSessions, "closingTime")
           newSale == [id |-> <<"VTA", now>>, total |-> attempt[c].total,
                       paymentMethod |-> attempt[c].method]
       IN  IF found = {}
           THEN \* toast "No hay caja activa"; returns false
                /\ attempt' = [attempt EXCEPT ![c] =
                       [@ EXCEPT !.live = DOMAIN cajaSessions # {}, !.outcome = "rejected"]]
                /\ UNCHANGED <<cajaSessions, acked, cart>>
           ELSE LET d == FirstDoc(found) IN
                /\ cajaSessions' = UpdateDoc(cajaSessions, d,
                                     [sales |-> Append(cajaSessions[d].sales, newSale)])
                /\ acked' = acked \cup {[sid |-> d, field |-> "sales", id |-> newSale.id]}
                /\ attempt' = [attempt EXCEPT ![c] =
                       [@ EXCEPT !.live = TRUE, !.outcome = "registered"]]
                \* resetSale
                /\ cart' = [cart EXCEPT ![c] = <<>>]
    /\ now' = now + 1
    /\ pc' = [pc EXCEPT ![c] = "idle"]
    /\ UNCHANGED <<notificationsVars, vendedoresVars, proveedoresVars, cajaHistory, products, orders, billableItems, invoices, usedIds,
                   arg, cajaLocal, pedidosLocal, facturacionLocal>>

\* the billable item handleAddToCustomerAccount stores: its own `id` field is
\* BS-<Date.now()>
BillableSale(t, customer, total) ==
    [id |-> <<"BS", t>>, customerId |-> customer, total |-> total,
     type |-> "pos-sale", invoiced |-> FALSE]

\* handleAddToCustomerAccount up to the end of its first await: addDoc of the
\* billable item
AccountAddBillable(c) ==
    /\ pc[c] = "idle"
    /\ now < MaxClock
    /\ \E customer \in Customers, id \in FreshIds :
         LET billableSale == BillableSale(now, customer, CartTotal(cart[c]))
         IN  /\ billableItems' = SetDoc(billableItems, id, billableSale)
             /\ usedIds' = usedIds \cup {id}
             /\ attempt' = [attempt EXCEPT ![c] =
                    NewAttempt("account", cart[c], "Cuenta Corriente")]
    /\ now' = now + 1
    /\ pc' = [pc EXCEPT ![c] = "account_stock"]
    /\ UNCHANGED <<notificationsVars, vendedoresVars, proveedoresVars, cajaSessions, cajaHistory, products, orders, invoices,
                   arg, cajaLocal, posLocal, pedidosLocal, facturacionLocal, acked>>

\* handleAddToCustomerAccount: `await updateStock()`
AccountStock(c) ==
    /\ pc[c] = "account_stock"
    /\ products' = UpdateStock(products, cart[c])
    /\ pc' = [pc EXCEPT ![c] = "register"]
    /\ UNCHANGED <<notificationsVars, vendedoresVars, proveedoresVars, cajaSessions, cajaHistory, orders, billableItems, invoices, usedIds,
                   now, arg, cajaLocal, posLocal, pedidosLocal, facturacionLocal, acked,
                   attempt>>

\* handleProceed, the delivery branch, and handleCreateOrder up to the end of its
\* first await: addDoc of the order, whose own `id` field is PED-<Date.now()>
CreateOrderAdd(c) ==
    /\ pc[c] = "idle"
    /\ DOMAIN cart[c] # {}
    /\ now < MaxClock
    /\ \E id \in FreshIds :
         LET newOrder == [id |-> <<"PED", now>>, total |-> CartTotal(cart[c]),
                          status |-> "Pendiente"]
         IN  /\ orders' = SetDoc(orders, id, newOrder)
             /\ usedIds' = usedIds \cup {id}
    /\ now' = now + 1
    /\ pc' = [pc EXCEPT ![c] = "order_stock"]
    /\ UNCHANGED <<notificationsVars, vendedoresVars, proveedoresVars, cajaSessions, cajaHistory, products, billableItems, invoices,
                   arg, cajaLocal, posLocal, pedidosLocal, facturacionLocal, acked,
                   attempt>>

\* handleCreateOrder: `await updateStock()`, then resetSale
CreateOrderStock(c) ==
    /\ pc[c] = "order_stock"
    /\ products' = UpdateStock(products, cart[c])
    /\ cart' = [cart EXCEPT ![c] = <<>>]
    /\ pc' = [pc EXCEPT ![c] = "idle"]
    /\ UNCHANGED <<notificationsVars, vendedoresVars, proveedoresVars, cajaSessions, cajaHistory, orders, billableItems, invoices, usedIds,
                   now, arg, cajaLocal, pedidosLocal, facturacionLocal, acked, attempt>>

----------------------------------------------------------------------------
(* PedidosPage: delivery orders *)

DocsOf(coll) == {mapDocTo(d, coll[d]) : d \in DOMAIN coll}

\* onSnapshot(query(collection(db, "orders"), ...))
OrdersSnapshot(c) ==
    /\ ordersView[c] # DocsOf(orders)
    /\ ordersView' = [ordersView EXCEPT ![c] = DocsOf(orders)]
    /\ UNCHANGED <<notificationsVars, vendedoresVars, proveedoresVars, storeVars, now, pc, arg, cajaLocal, posLocal, facturacionLocal,
                   acked, attempt>>

\* handlePaymentInCash(order, paymentMethod).  Its first await is the updateDoc
\* of doc(db, "orders", order.id); the getDocs of the live session and the
\* updateDoc of its sales follow only if that write did not throw, so the three
\* awaits are one action here.
HandlePaymentInCash(c) ==
    /\ pc[c] = "idle"
    /\ \E order \in ordersView[c], paymentMethod \in CashMethods :
         LET found == WhereEqNull(cajaSessions, "closingTime")
             newSale == [id |-> <<"VTA-PED", order.id[2]>>, total |-> order.total,
                         paymentMethod |-> paymentMethod]
             result(out) == [kind |-> "collect", order |-> order.id,
                             method |-> paymentMethod, customer |-> Null,
                             live |-> DOMAIN cajaSessions # {}, outcome |-> out]
         IN  IF ~Exists(orders, order.id)
             THEN \* updateDoc throws: toast "No se pudo actualizar el estado del pedido"
                  /\ attempt' = [attempt EXCEPT ![c] = result("error")]
                  /\ UNCHANGED <<orders, cajaSessions, acked>>
             ELSE /\ orders' = UpdateDoc(orders, order.id, [status |-> "Entregado"])
                  /\ IF found = {}
                     THEN UNCHANGED <<cajaSessions, acked>>
                     ELSE LET d == FirstDoc(found) IN
                          /\ cajaSessions' = UpdateDoc(cajaSessions, d,
                                 [sales |-> Append(cajaSessions[d].sales, newSale)])
                          /\ acked' = acked \cup {[sid |-> d, field |-> "sales",
                                                   id |-> newSale.id]}
                  \* toast "Cobro Registrado"
                  /\ attempt' = [attempt EXCEPT ![c] = result("Cobro Registrado")]
    /\ UNCHANGED <<notificationsVars, vendedoresVars, proveedoresVars, cajaHistory, products, billableItems, invoices, usedIds, now, pc, arg,
                   cajaLocal, posLocal, pedidosLocal, facturacionLocal>>

\* the billable item PedidosPage.handleAddToCustomerAccount stores: its own `id`
\* field is BO-<order.id>
BillableOrder(order, customer) ==
    [id |-> <<"BO", order.id[2]>>, customerId |-> customer, total |-> order.total,
     type |-> "delivery-order", invoiced |-> FALSE]

\* handlePayment(order, "Cuenta Corriente") and handleAddToCustomerAccount up to
\* the end of its first await: addDoc of the billable item
PedidosAccountAdd(c) ==
    /\ pc[c] = "idle"
    /\ \E order \in ordersView[c], customer \in Customers, id \in FreshIds :
         /\ billableItems' = SetDoc(billableItems, id, BillableOrder(order, customer))
         /\ usedIds' = usedIds \cup {id}
         /\ arg' = [arg EXCEPT ![c] = [order |-> order, customer |-> customer]]
         /\ attempt' = [attempt EXCEPT ![c] =
                [kind |-> "collect", order |-> order.id, method |-> "Cuenta Corriente",
                 customer |-> customer, live |-> DOMAIN cajaSessions # {},
                 outcome |-> "pending"]]
    /\ pc' = [pc EXCEPT ![c] = "account_update"]
    /\ UNCHANGED <<notificationsVars, vendedoresVars, proveedoresVars, cajaSessions, cajaHistory, products, orders, invoices, now,
                   cajaLocal, posLocal, pedidosLocal, facturacionLocal, acked>>

\* handleAddToCustomerAccount after the addDoc: updateDoc of
\* doc(db, "orders", orderForCtaCte.id)
PedidosAccountUpdate(c) ==
    /\ pc[c] = "account_update"
    /\ LET order == arg[c].order IN
       IF ~Exists(orders, order.id)
       THEN \* updateDoc throws: toast "No se pudo actualizar el estado del pedido"
            /\ attempt' = [attempt EXCEPT ![c] = [@ EXCEPT !.outcome = "error"]]
            /\ UNCHANGED orders
       ELSE \* toast "Pedido listo para facturar"
            /\ orders' = UpdateDoc(orders, order.id,
                            [status |-> "Entregado", customerId |-> arg[c].customer])
            /\ attempt' = [attempt EXCEPT ![c] =
                   [@ EXCEPT !.outcome = "Pedido listo para facturar"]]
    /\ pc' = [pc EXCEPT ![c] = "idle"]
    /\ arg' = [arg EXCEPT ![c] = NoArg]
    /\ UNCHANGED <<notificationsVars, vendedoresVars, proveedoresVars, cajaSessions, cajaHistory, products, billableItems, invoices, usedIds,
                   now, cajaLocal, posLocal, pedidosLocal, facturacionLocal, acked>>

----------------------------------------------------------------------------
(* FacturacionPage: invoicing *)

\* number of document ids the store can generate in "invoices"
MaxInvoices == 2
InvoiceIds == {<<"inv", n>> : n \in 1..MaxInvoices}

\* the onSnapshot listeners of "invoices" and "billable-items"
FacturacionSnapshot(c) ==
    /\ <<billableView[c], invoicesView[c]>> # <<DocsOf(billableItems), DocsOf(invoices)>>
    /\ billableView' = [billableView EXCEPT ![c] = DocsOf(billableItems)]
    /\ invoicesView' = [invoicesView EXCEPT ![c] = DocsOf(invoices)]
    /\ UNCHANGED <<notificationsVars, vendedoresVars, proveedoresVars, storeVars, now, pc, arg, cajaLocal, posLocal, pedidosLocal,
                   acked, attempt>>

\* the items the invoice form offers for the selected customer
uninvoicedSalesForSelectedCustomer(view, customerId) ==
    {item \in view : item.customerId = customerId /\ ~item.invoiced}

\* writeBatch: batch.update of each selected id; commit fails as a whole when
\* one of the documents does not exist
BatchUpdatable(coll, ids) == \A id \in ids : Exists(coll, id)

BatchUpdate(coll, ids, u) ==
    [d \in DOMAIN coll |-> IF d \in ids THEN Merge(coll[d], u) ELSE coll[d]]

\* handleGenerateInvoice(data): one batch holding the new invoice and the update
\* of every selected billable item
GenerateInvoice(c) ==
    /\ pc[c] = "idle"
    /\ \E customerId \in Customers, invoiceId \in InvoiceIds \ DOMAIN invoices :
       \E selectedSales \in
            (SUBSET {item.id : item \in
                        uninvoicedSalesForSelectedCustomer(billableView[c], customerId)})
            \ {{}} :
         LET salesToInvoice == {item \in billableView[c] : item.id \in selectedSales}
             sequentialId == Cardinality(invoicesView[c]) + 1
             newInvoice == [sequentialId |-> sequentialId, customerId |-> customerId,
                            total |-> SumOver(salesToInvoice,
                                        [item \in salesToInvoice |-> item.total]),
                            status |-> "Pendiente", payments |-> <<>>,
                            sourceSaleIds |-> selectedSales]
             result(out) == [kind |-> "invoice", customer |-> customerId,
                             selected |-> selectedSales, seq |-> sequentialId,
                             invoiceId |-> invoiceId, outcome |-> out]
         IN  IF BatchUpdatable(billableItems, selectedSales)
             THEN \* toast "Factura Generada"
                  /\ invoices' = SetDoc(invoices, invoiceId, newInvoice)
                  /\ billableItems' = BatchUpdate(billableItems, selectedSales,
                                         [invoiced |-> TRUE, invoiceId |-> invoiceId])
                  /\ attempt' = [attempt EXCEPT ![c] = result("Factura Generada")]
             ELSE \* commit throws: toast "No se pudo guardar la factura"
                  /\ attempt' = [attempt EXCEPT ![c] = result("error")]
                  /\ UNCHANGED <<invoices, billableItems>>
    /\ UNCHANGED <<notificationsVars, vendedoresVars, proveedoresVars, cajaSessions, cajaHistory, products, orders, usedIds, now, pc, arg,
                   cajaLocal, posLocal, pedidosLocal, facturacionLocal, acked>>

PayAmounts == {100, 140}

\* inv.payments.reduce((sum, p) => sum + p.amount, 0)
RECURSIVE TotalPaid(_)
TotalPaid(payments) ==
    IF payments = <<>> THEN 0
    ELSE payments[1].amount + TotalPaid(Tail(payments))

\* handleRegisterPayment: the payments and the status it writes for the invoice
\* it found in the page's list
PaymentUpdate(invoiceToUpdate, newPayment) ==
    LET updatedPayments == Append(invoiceToUpdate.payments, newPayment)
        totalPaid == TotalPaid(updatedPayments)
        newStatus == IF totalPaid >= invoiceToUpdate.total
                     THEN "Pagada" ELSE invoiceToUpdate.status
    IN  [payments |-> updatedPayments, status |-> newStatus]

\* handleRegisterPayment(data) for the invoice id held by the payment dialog
RegisterPayment(c) ==
    /\ pc[c] = "idle"
    /\ \E invoiceId \in InvoiceIds, amount \in PayAmounts :
         LET found == {inv \in invoicesView[c] : inv.id = invoiceId}
             result(pay, out) == [kind |-> "payment", invoiceId |-> invoiceId,
                                  payment |-> pay, outcome |-> out]
         IN  IF found = {}
             THEN \* invoiceToUpdate is undefined: return
                  /\ attempt' = [attempt EXCEPT ![c] = result(Null, "no invoice")]
                  /\ UNCHANGED <<invoices, now>>
             ELSE LET invoiceToUpdate == CHOOSE inv \in found : TRUE
                      newPayment == [id |-> <<"PAY", now>>, amount |-> amount]
                  IN  /\ now < MaxClock
                      /\ now' = now + 1
                      /\ IF Exists(invoices, invoiceId)
                         THEN \* toast "Pago Registrado"
                              /\ invoices' = UpdateDoc(invoices, invoiceId,
                                               PaymentUpdate(invoiceToUpdate, newPayment))
                              /\ attempt' = [attempt EXCEPT ![c] =
                                     result(newPayment, "Pago Registrado")]
                         ELSE \* updateDoc throws: toast "No se pudo registrar el pago"
                              /\ attempt' = [attempt EXCEPT ![c] = result(newPayment, "error")]
                              /\ UNCHANGED invoices
    /\ UNCHANGED <<notificationsVars, vendedoresVars, proveedoresVars, cajaSessions, cajaHistory, products, orders, billableItems, usedIds,
                   pc, arg, cajaLocal, posLocal, pedidosLocal, facturacionLocal, acked>>

\* a balance contribution that ignores the payments
InvoiceDueIgnoringPayments(inv) == inv.total

\* the amount an open invoice adds to its customer's balance
InvoiceDue(inv) == inv.total - TotalPaid(inv.payments)

\* customerBalances: every client starts at 0, then each invoice that is
\* "Pendiente" or "Vencida" adds total - paidAmount to its customer's entry
RECURSIVE BalancesFold(_, _)
BalancesFold(invs, balances) ==
    IF invs = <<>> THEN balances
    ELSE LET inv == Head(invs)
             prior == IF inv.customerId \in DOMAIN balances
                      THEN balances[inv.customerId] ELSE 0
         IN  BalancesFold(Tail(invs),
                 IF inv.status = "Pendiente" \/ inv.status = "Vencida"
                 THEN SetDoc(balances, inv.customerId, prior + InvoiceDue(inv))
                 ELSE balances)

customerBalances(invs, clients) == BalancesFold(invs, [k \in clients |-> 0])

\* customersWithDebt of the reports page: the clients whose balance is > 0
customersWithDebt(invs, clients) ==
    {k \in clients : customerBalances(invs, clients)[k] > 0}

\* longest list of invoices the balances are computed for
MaxInvoiceList == 2
InvoiceStatuses == {"Pendiente", "Pagada", "Vencida", "Anulada"}
PaymentLists == {<<>>, <<[id |-> <<"PAY", 0>>, amount |-> 100]>>,
                 <<[id |-> <<"PAY", 0>>, amount |-> 100],
                   [id |-> <<"PAY", 1>>, amount |-> 140]>>}
InvoiceInputs ==
    {[customerId |-> k, total |-> 240, status |-> st, payments |-> ps] :
        k \in Customers, st \in InvoiceStatuses, ps \in PaymentLists}
InvoiceLists == UNION {[1..n -> InvoiceInputs] : n \in 0..MaxInvoiceList}

\* the balances memo evaluated once on a list of invoices
ComputeBalances(c) ==
    /\ attempt[c] = NoAttempt
    /\ \E invs \in InvoiceLists :
         attempt' = [attempt EXCEPT ![c] =
            [kind |-> "balances", invoices |-> invs,
             balances |-> customerBalances(invs, Customers),
             withDebt |-> customersWithDebt(invs, Customers)]]
    /\ UNCHANGED <<notificationsVars, vendedoresVars, proveedoresVars, storeVars, now, pc, arg, cajaLocal, posLocal, pedidosLocal,
                   facturacionLocal, acked>>

----------------------------------------------------------------------------
(* CajaPage: expected totals and reconciliation.  Amounts of this section are *)
(* in thousandths of the currency unit, so that rounding to cents shows.      *)

\* a Sale.paymentMethod domain with a fifth method
SaleMethodsWithCheque == {"Efectivo", "Tarjeta", "Transferencia", "Cuenta Corriente", "Cheque"}

\* Sale.paymentMethod
SaleMethods == {"Efectivo", "Tarjeta", "Transferencia", "Cuenta Corriente"}

\* session.sales.reduce((acc, sale) => { acc[sale.paymentMethod] = (acc[..] || 0) + sale.total })
RECURSIVE SalesByMethod(_, _)
SalesByMethod(sales, acc) ==
    IF sales = <<>> THEN acc
    ELSE LET sale == Head(sales)
             prior == IF sale.paymentMethod \in DOMAIN acc THEN acc[sale.paymentMethod] ELSE 0
         IN  SalesByMethod(Tail(sales), SetDoc(acc, sale.paymentMethod, prior + sale.total))

\* session.expenses.reduce((acc, expense) => acc + expense.amount, 0)
RECURSIVE TotalExpenses(_)
TotalExpenses(expenses) ==
    IF expenses = <<>> THEN 0 ELSE expenses[1].amount + TotalExpenses(Tail(expenses))

\* expectedTotals of a session
expectedTotals(s) ==
    LET salesByMethod == SalesByMethod(s.sales, <<>>)
        get(m) == IF m \in DOMAIN salesByMethod THEN salesByMethod[m] ELSE 0
    IN  [k \in {"Efectivo", "Tarjeta", "Transferencia", "Cuenta Corriente", "Total", "Gastos"} |->
            CASE k = "Total" -> SumOver(DOMAIN salesByMethod, salesByMethod)
              [] k = "Gastos" -> TotalExpenses(s.expenses)
              [] OTHER -> get(k)]

\* an expected cash that leaves the expenses out
expectedCashIgnoringExpenses(s) == s.initialAmount + expectedTotals(s)["Efectivo"]

\* expectedCashInBox
expectedCashInBox(s) ==
    s.initialAmount + expectedTotals(s)["Efectivo"] - expectedTotals(s)["Gastos"]

\* parseFloat(x.toFixed(2))
RoundToCents(x) ==
    IF x >= 0 THEN ((x + 5) \div 10) * 10 ELSE 0 - (((0 - x) + 5) \div 10) * 10

\* the values the closing form is reset to when the dialog opens
closeFormPrefill(s) ==
    [countedEfectivo |-> RoundToCents(expectedCashInBox(s)),
     countedTarjeta |-> expectedTotals(s)["Tarjeta"],
     countedTransferencia |-> expectedTotals(s)["Transferencia"]]

\* differences
differences(s, counted) ==
    [Efectivo |-> counted.countedEfectivo - expectedCashInBox(s),
     Tarjeta |-> counted.countedTarjeta - expectedTotals(s)["Tarjeta"],
     Transferencia |-> counted.countedTransferencia - expectedTotals(s)["Transferencia"]]

\* longest sales and expenses lists of a session the totals are computed for
MaxSales == 2
MaxExpenses == 1
SaleTotals == {50000, 30005}
InitialAmounts == {0, 100000}
SaleInputs == {[id |-> <<"VTA", 0>>, total |-> t, paymentMethod |-> m] :
                  t \in SaleTotals, m \in SaleMethods}
ExpenseInputs == {[id |-> <<"EXP", 0>>, amount |-> 20000]}
SessionInputs ==
    {[initialAmount |-> a, sales |-> sl, expenses |-> el] :
        a \in InitialAmounts,
        sl \in UNION {[1..n -> SaleInputs] : n \in 0..MaxSales},
        el \in UNION {[1..n -> ExpenseInputs] : n \in 0..MaxExpenses}}
\* what the operator types over the prefilled form: nothing, or a correction
CountedDeltas == {0, 1000}

\* the totals and the reconciliation of a session as the closing dialog shows
\* them, evaluated once
ComputeTotals(c) ==
    /\ attempt[c] = NoAttempt
    /\ \E s \in SessionInputs, exact \in BOOLEAN,
          dE \in CountedDeltas, dT \in CountedDeltas, dX \in CountedDeltas :
         LET base == IF exact
                     THEN [countedEfectivo |-> expectedCashInBox(s),
                           countedTarjeta |-> expectedTotals(s)["Tarjeta"],
                           countedTransferencia |-> expectedTotals(s)["Transferencia"]]
                     ELSE closeFormPrefill(s)
             counted == [countedEfectivo |-> base.countedEfectivo + dE,
                         countedTarjeta |-> base.countedTarjeta + dT,
                         countedTransferencia |-> base.countedTransferencia + dX]
         IN  attempt' = [attempt EXCEPT ![c] =
                [kind |-> "totals", session |-> s, expected |-> expectedTotals(s),
                 expectedCash |-> expectedCashInBox(s), counted |-> counted,
                 differences |-> differences(s, counted)]]
    /\ UNCHANGED <<notificationsVars, vendedoresVars, proveedoresVars, storeVars, now, pc, arg, cajaLocal, posLocal, pedidosLocal,
                   facturacionLocal, acked>>

----------------------------------------------------------------------------
(* VendedoresPage: stock consigned to a seller.  The name, price and image of *)
(* a listed product are left out; the list is a map from product id to        *)
(* quantity.                                                                  *)

MaxAssigned == 2
MaxSaleItems == 2
MaxReturns == 1

\* seller.assignedStock.forEach: a product that is not in the list of products
\* is skipped
RECURSIVE AssignFold(_, _, _)
AssignFold(stockMap, assignedStock, localProducts) ==
    IF assignedStock = <<>>
    THEN stockMap
    ELSE LET item == Head(assignedStock)
             currentQty == IF item.productId \in DOMAIN stockMap
                           THEN stockMap[item.productId] ELSE 0
         IN  AssignFold(IF item.productId \in localProducts
                        THEN SetDoc(stockMap, item.productId, currentQty + item.quantity)
                        ELSE stockMap,
                        Tail(assignedStock), localProducts)

\* sale.items.forEach and seller.returns.forEach: subtract from an entry the
\* map already has
RECURSIVE SubtractFold(_, _)
SubtractFold(stockMap, items) ==
    IF items = <<>>
    THEN stockMap
    ELSE LET item == Head(items)
         IN  SubtractFold(IF item.productId \in DOMAIN stockMap
                          THEN [stockMap EXCEPT ![item.productId] = @ - item.quantity]
                          ELSE stockMap,
                          Tail(items))

\* seller.sales.forEach
RECURSIVE SalesFold(_, _)
SalesFold(stockMap, sales) ==
    IF sales = <<>>
    THEN stockMap
    ELSE SalesFold(SubtractFold(stockMap, Head(sales).items), Tail(sales))

\* the stockMap at the end of the three loops
StockMapOf(seller, localProducts) ==
    SubtractFold(SalesFold(AssignFold(<<>>, seller.assignedStock, localProducts),
                           seller.sales),
                 seller.returns)

calculateSellerStockUnfiltered(seller, localProducts) == StockMapOf(seller, localProducts)

\* calculateSellerStock(seller, localProducts), seller not null
calculateSellerStock(seller, localProducts) ==
    LET stockMap == StockMapOf(seller, localProducts)
    IN  [p \in {x \in DOMAIN stockMap : stockMap[x] > 0} |-> stockMap[p]]

SeqsUpTo(S, n) == UNION {[1..k -> S] : k \in 0..n}

AssignedProducts == [productId : Products, quantity : {4, 10}]
SellerSaleItems == [productId : Products, quantity : {3, 7}]
SellerReturns == [productId : Products, quantity : {1}]
\* one sale at most; a sale holds up to MaxSaleItems items
SellerInputs ==
    [assignedStock : SeqsUpTo(AssignedProducts, MaxAssigned),
     sales : {<<>>} \cup {<<[items |-> it]>> : it \in SeqsUpTo(SellerSaleItems, MaxSaleItems) \ {<<>>}},
     returns : SeqsUpTo(SellerReturns, MaxReturns)]
\* the list of products either holds both products or lacks p2
ProductLists == {Products, {"p1"}}

\* one evaluation of calculateSellerStock
ComputeSellerStock(c) ==
    /\ attempt[c] = NoAttempt
    /\ \E seller \in SellerInputs, localProducts \in ProductLists :
         attempt' = [attempt EXCEPT ![c] =
            [kind |-> "sellerStock", seller |-> seller, localProducts |-> localProducts,
             result |-> calculateSellerStock(seller, localProducts)]]
    /\ UNCHANGED <<notificationsVars, vendedoresVars, proveedoresVars, storeVars, now, pc, arg, cajaLocal, posLocal, pedidosLocal,
                   facturacionLocal, acked>>

\* a view or dialog of the page that holds no seller
NoSeller == [id |-> Null]
\* quantities entered in the sale view; in the assignment view and the return dialog
SellerQuantities == {1, 2}
AssignQuantities == {1}
MaxSellerSales == 1
MaxSellerAssignments == 1
MaxSaleCartQty == 2
ReturnReasons == {"No vendido", "Dañado"}

\* newBalance: the value of the stock the seller holds, at the prices of the
\* page's list of products
newBalance(seller, localProducts) ==
    LET sellerStock == calculateSellerStock(seller, DOMAIN localProducts)
    IN  SumOver(DOMAIN sellerStock,
                [p \in DOMAIN sellerStock |-> sellerStock[p] * localProducts[p].price])

\* sellersWithRecalculatedBalance
RecalculatedSellers(coll, localProducts) ==
    {[mapDocTo(d, coll[d]) EXCEPT !.balance = newBalance(coll[d], localProducts)] :
        d \in DOMAIN coll}

\* a write-back of the value of everything ever assigned, sales and returns
\* ignored
WithAssignedValue(coll, localProducts) ==
    [d \in DOMAIN coll |->
        [coll[d] EXCEPT !.balance =
            newBalance([coll[d] EXCEPT !.sales = <<>>, !.returns = <<>>], localProducts)]]

\* the collection after the updateDocs of the sellers listener: one per seller
\* whose stored balance differs from the recalculated one
WithBalances(coll, localProducts) ==
    [d \in DOMAIN coll |-> [coll[d] EXCEPT !.balance = newBalance(coll[d], localProducts)]]

\* onSnapshot(query(collection(db, "products"))) of the page; the effect that
\* holds both listeners runs again with the new list
VendedoresProductsSnapshot(c) ==
    /\ productsView[c] # products
    /\ productsView' = [productsView EXCEPT ![c] = products]
    /\ UNCHANGED <<notificationsVars, storeVars, now, pc, arg, cajaLocal, posLocal, pedidosLocal,
                   facturacionLocal, acked, attempt, proveedoresVars, sellers,
                   sellersView, assigningToSeller, sellingForSeller,
                   saleCart, sellerForAction>>

\* onSnapshot(query(collection(db, "sellers"))): recalculates every balance
\* with the list of products the effect was run with, updates the stored
\* balances that differ, and sets the page's list
SellersSnapshot(c) ==
    /\ \/ sellersView[c] # RecalculatedSellers(sellers, productsView[c])
       \/ sellers # WithBalances(sellers, productsView[c])
    /\ sellers' = WithBalances(sellers, productsView[c])
    /\ sellersView' = [sellersView EXCEPT ![c] = RecalculatedSellers(sellers, productsView[c])]
    /\ UNCHANGED <<notificationsVars, storeVars, now, pc, arg, cajaLocal, posLocal, pedidosLocal,
                   facturacionLocal, acked, attempt, proveedoresVars,
                   productsView, assigningToSeller, sellingForSeller, saleCart,
                   sellerForAction>>

\* no view or dialog of the page is open
NoSellerView(c) ==
    /\ pc[c] = "idle"
    /\ assigningToSeller[c] = NoSeller
    /\ sellingForSeller[c] = NoSeller
    /\ sellerForAction[c] = NoSeller

\* openAssignmentView(seller), from a row of the list
OpenAssignmentView(c) ==
    /\ NoSellerView(c)
    /\ \E seller \in sellersView[c] :
         assigningToSeller' = [assigningToSeller EXCEPT ![c] = seller]
    /\ UNCHANGED <<notificationsVars, storeVars, now, pc, arg, cajaLocal, posLocal, pedidosLocal,
                   facturacionLocal, acked, attempt, proveedoresVars, sellers,
                   sellersView, productsView, sellingForSeller, saleCart, sellerForAction>>

\* openSaleView(seller), from a row of the list
OpenSaleView(c) ==
    /\ NoSellerView(c)
    /\ \E seller \in sellersView[c] :
         sellingForSeller' = [sellingForSeller EXCEPT ![c] = seller]
    /\ saleCart' = [saleCart EXCEPT ![c] = <<>>]
    /\ UNCHANGED <<notificationsVars, storeVars, now, pc, arg, cajaLocal, posLocal, pedidosLocal,
                   facturacionLocal, acked, attempt, proveedoresVars, sellers,
                   sellersView, productsView, assigningToSeller, sellerForAction>>

\* openActionDialog(seller, "return"), from a row of the list
OpenActionDialog(c) ==
    /\ NoSellerView(c)
    /\ \E seller \in sellersView[c] :
         sellerForAction' = [sellerForAction EXCEPT ![c] = seller]
    /\ UNCHANGED <<notificationsVars, storeVars, now, pc, arg, cajaLocal, posLocal, pedidosLocal,
                   facturacionLocal, acked, attempt, proveedoresVars, sellers,
                   sellersView, productsView, assigningToSeller, sellingForSeller, saleCart>>

\* the close button of the assignment view and of the sale view, and closeDialog
CloseSellerView(c) ==
    /\ pc[c] = "idle"
    /\ ~NoSellerView(c)
    /\ assigningToSeller' = [assigningToSeller EXCEPT ![c] = NoSeller]
    /\ sellingForSeller' = [sellingForSeller EXCEPT ![c] = NoSeller]
    /\ sellerForAction' = [sellerForAction EXCEPT ![c] = NoSeller]
    /\ saleCart' = [saleCart EXCEPT ![c] = <<>>]
    /\ UNCHANGED <<notificationsVars, storeVars, now, pc, arg, cajaLocal, posLocal, pedidosLocal,
                   facturacionLocal, acked, attempt, proveedoresVars, sellers,
                   sellersView, productsView>>

\* handleConfirmAssignment up to the end of its first await, over a cart of one
\* line: the check against the page's list of products, then the debit of the
\* catalogue stock.  A rejected cart changes nothing.
ConfirmAssignmentStock(c) ==
    /\ pc[c] = "idle"
    /\ assigningToSeller[c] # NoSeller
    /\ \E productId \in DOMAIN productsView[c], quantity \in AssignQuantities,
          isDirectSale \in BOOLEAN :
         /\ productsView[c][productId].stock >= quantity
         /\ products' = [products EXCEPT ![productId].stock = @ - quantity]
         /\ productsView' = [productsView EXCEPT ![c][productId].stock = @ - quantity]
         /\ arg' = [arg EXCEPT ![c] = [productId |-> productId, quantity |-> quantity,
                                       isDirectSale |-> isDirectSale]]
    /\ pc' = [pc EXCEPT ![c] = "assign_seller"]
    /\ UNCHANGED <<notificationsVars, cajaSessions, cajaHistory, orders, billableItems, invoices, usedIds,
                   now, cajaLocal, posLocal, pedidosLocal, facturacionLocal, acked,
                   attempt, proveedoresVars, sellers, sellersView, assigningToSeller,
                   sellingForSeller, saleCart, sellerForAction>>

\* handleConfirmAssignment: the updateDoc of the seller, from the copy of the
\* seller the view was opened with, then the view closes
ConfirmAssignmentSeller(c) ==
    /\ pc[c] = "assign_seller"
    /\ LET line == [productId |-> arg[c].productId, quantity |-> arg[c].quantity]
           seller == assigningToSeller[c]
           u == IF arg[c].isDirectSale
                THEN [sales |-> Append(seller.sales, [items |-> <<line>>])]
                ELSE [assignedStock |-> Append(seller.assignedStock, line)]
       IN  /\ IF arg[c].isDirectSale
              THEN Len(seller.sales) < MaxSellerSales
              ELSE Len(seller.assignedStock) < MaxSellerAssignments
           /\ sellers' = UpdateDoc(sellers, seller.id, u)
           /\ sellersView' = [sellersView EXCEPT ![c] = LocalUpdate(@, seller.id, u)]
    /\ assigningToSeller' = [assigningToSeller EXCEPT ![c] = NoSeller]
    /\ pc' = [pc EXCEPT ![c] = "idle"]
    /\ arg' = [arg EXCEPT ![c] = NoArg]
    /\ UNCHANGED <<notificationsVars, storeVars, now, cajaLocal, posLocal, pedidosLocal, facturacionLocal,
                   acked, attempt, proveedoresVars, productsView, sellingForSeller,
                   saleCart, sellerForAction>>

\* sellerAvailableStockForSale
sellerAvailableStockForSale(c) ==
    calculateSellerStock(sellingForSeller[c], DOMAIN productsView[c])

\* handleSaleQuantityChange and handleAddToSaleCart: the quantity entered is at
\* most the quantity the seller holds; it is added to the line the cart has
AddToSaleCart(c) ==
    /\ pc[c] = "idle"
    /\ sellingForSeller[c] # NoSeller
    /\ \E productId \in DOMAIN sellerAvailableStockForSale(c), newQuantity \in SellerQuantities :
         LET quantity == IF newQuantity <= sellerAvailableStockForSale(c)[productId]
                         THEN newQuantity
                         ELSE sellerAvailableStockForSale(c)[productId]
             inCart == IF productId \in DOMAIN saleCart[c] THEN saleCart[c][productId] ELSE 0
         IN  /\ inCart + quantity <= MaxSaleCartQty
             /\ saleCart' = [saleCart EXCEPT ![c] = SetDoc(@, productId, inCart + quantity)]
    /\ UNCHANGED <<notificationsVars, storeVars, now, pc, arg, cajaLocal, posLocal, pedidosLocal,
                   facturacionLocal, acked, attempt, proveedoresVars, sellers,
                   sellersView, productsView, assigningToSeller,
                   sellingForSeller, sellerForAction>>

\* the lines of a cart, as a list
RECURSIVE CartLines(_)
CartLines(ct) ==
    IF DOMAIN ct = {}
    THEN <<>>
    ELSE LET p == CHOOSE x \in DOMAIN ct : TRUE
         IN  <<[productId |-> p, quantity |-> ct[p]]>>
             \o CartLines([x \in DOMAIN ct \ {p} |-> ct[x]])

\* handleConfirmSale
ConfirmSale(c) ==
    /\ pc[c] = "idle"
    /\ sellingForSeller[c] # NoSeller
    /\ DOMAIN saleCart[c] # {}
    /\ Len(sellingForSeller[c].sales) < MaxSellerSales
    /\ LET u == [sales |-> Append(sellingForSeller[c].sales,
                                  [items |-> CartLines(saleCart[c])])]
       IN  /\ sellers' = UpdateDoc(sellers, sellingForSeller[c].id, u)
           /\ sellersView' = [sellersView EXCEPT ![c] = LocalUpdate(@, sellingForSeller[c].id, u)]
    /\ sellingForSeller' = [sellingForSeller EXCEPT ![c] = NoSeller]
    /\ saleCart' = [saleCart EXCEPT ![c] = <<>>]
    /\ UNCHANGED <<notificationsVars, storeVars, now, pc, arg, cajaLocal, posLocal, pedidosLocal,
                   facturacionLocal, acked, attempt, proveedoresVars, productsView,
                   assigningToSeller, sellerForAction>>

\* the update of handleRegisterReturn: the returns of the copy of the seller
\* the dialog was opened with, and the new one
ReturnsUpdate(seller, newReturn) == [returns |-> Append(seller.returns, newReturn)]

\* handleRegisterReturn up to the end of its first await.  The quantity is
\* compared with what the seller of the page's list holds; a 'No vendido'
\* return credits the catalogue stock first, a 'Dañado' return goes to the
\* updateDoc of the seller at once.  A rejected return changes nothing.
RegisterReturn(c) ==
    /\ pc[c] = "idle"
    /\ sellerForAction[c] # NoSeller
    /\ Len(sellerForAction[c].returns) < MaxReturns
    /\ \E productId \in DOMAIN productsView[c], quantity \in AssignQuantities,
          reason \in ReturnReasons,
          sellerToUpdate \in {x \in sellersView[c] : x.id = sellerForAction[c].id} :
         LET held == calculateSellerStock(sellerToUpdate, DOMAIN productsView[c])
             availableToReturn == IF productId \in DOMAIN held THEN held[productId] ELSE 0
             newReturn == [productId |-> productId, quantity |-> quantity, reason |-> reason]
             u == ReturnsUpdate(sellerForAction[c], newReturn)
         IN  /\ quantity <= availableToReturn
             /\ IF reason = "No vendido"
                THEN /\ products' = [products EXCEPT ![productId].stock = @ + quantity]
                     /\ productsView' = [productsView EXCEPT ![c][productId].stock = @ + quantity]
                     /\ arg' = [arg EXCEPT ![c] = newReturn]
                     /\ pc' = [pc EXCEPT ![c] = "return_seller"]
                     /\ UNCHANGED <<sellers, sellersView, sellerForAction>>
                ELSE /\ sellers' = UpdateDoc(sellers, sellerForAction[c].id, u)
                     /\ sellersView' = [sellersView EXCEPT ![c] =
                                           LocalUpdate(@, sellerForAction[c].id, u)]
                     /\ sellerForAction' = [sellerForAction EXCEPT ![c] = NoSeller]
                     /\ UNCHANGED <<products, productsView, arg, pc>>
    /\ UNCHANGED <<notificationsVars, cajaSessions, cajaHistory, orders, billableItems, invoices, usedIds,
                   now, cajaLocal, posLocal, pedidosLocal, facturacionLocal, acked,
                   attempt, proveedoresVars, assigningToSeller, sellingForSeller, saleCart>>

\* handleRegisterReturn of a 'No vendido' return: the updateDoc of the seller,
\* then closeDialog
RegisterReturnSeller(c) ==
    /\ pc[c] = "return_seller"
    /\ LET u == ReturnsUpdate(sellerForAction[c], arg[c])
       IN  /\ sellers' = UpdateDoc(sellers, sellerForAction[c].id, u)
           /\ sellersView' = [sellersView EXCEPT ![c] = LocalUpdate(@, sellerForAction[c].id, u)]
    /\ sellerForAction' = [sellerForAction EXCEPT ![c] = NoSeller]
    /\ pc' = [pc EXCEPT ![c] = "idle"]
    /\ arg' = [arg EXCEPT ![c] = NoArg]
    /\ UNCHANGED <<notificationsVars, storeVars, now, cajaLocal, posLocal, pedidosLocal, facturacionLocal,
                   acked, attempt, proveedoresVars, productsView, assigningToSeller,
                   sellingForSeller, saleCart>>

----------------------------------------------------------------------------
(* PedidosProveedoresPage: orders to suppliers.  The order form stores one   *)
(* item; the supplier, orderDate, observations and sequentialId are left out.  The status   *)
(* button and the edit button of a row are disabled when the row shows a      *)
(* received status: that is the guard of the actions that start there.  The   *)
(* listener of a client fires with that client's own writes.                  *)

MaxSupplierOrders == 1
MaxStockEntries == 2
OrderQuantities == {1, 2}
OrderItemPrice == 10
ReceivedStatuses == {"Recibido", "Recibido (Parcial)"}
\* editingOrder and orderToReceive when null
NoOrder == [id |-> Null]
\* the entries of the status menu
MenuStatuses == {"Borrador", "Confirmado", "En tránsito", "Recibido"}

\* onSnapshot(query(collection(db, "supplier-orders")))
SupplierOrdersSnapshot(c) ==
    /\ supplierOrdersView[c] # DocsOf(supplierOrders)
    /\ supplierOrdersView' = [supplierOrdersView EXCEPT ![c] = DocsOf(supplierOrders)]
    /\ UNCHANGED <<notificationsVars, vendedoresVars, storeVars, now, pc, arg, cajaLocal, posLocal, pedidosLocal,
                   facturacionLocal, acked, attempt, supplierOrders, generalStock,
                   orderDialog, editingOrder, orderToReceive>>

\* handleOpenOrderDialog(order): "Nuevo Pedido" (no order) or the edit
\* button of a row
HandleOpenOrderDialog(c) ==
    /\ pc[c] = "idle"
    /\ orderDialog[c] = "closed"
    /\ \E order \in {NoOrder} \cup {o \in supplierOrdersView[c] : o.status \notin ReceivedStatuses} :
         editingOrder' = [editingOrder EXCEPT ![c] = order]
    /\ orderDialog' = [orderDialog EXCEPT ![c] = "order"]
    /\ UNCHANGED <<notificationsVars, vendedoresVars, storeVars, now, pc, arg, cajaLocal, posLocal, pedidosLocal,
                   facturacionLocal, acked, attempt, supplierOrders, generalStock,
                   supplierOrdersView, orderToReceive>>

\* "Cancelar" of the order dialog or of the receive dialog.  editingOrder and
\* orderToReceive are read only while their dialog is open and are set when it
\* opens; a closed dialog holds none.
CancelOrderDialog(c) ==
    /\ pc[c] = "idle"
    /\ orderDialog[c] # "closed"
    /\ orderDialog' = [orderDialog EXCEPT ![c] = "closed"]
    /\ editingOrder' = [editingOrder EXCEPT ![c] = NoOrder]
    /\ orderToReceive' = [orderToReceive EXCEPT ![c] = NoOrder]
    /\ UNCHANGED <<notificationsVars, vendedoresVars, storeVars, now, pc, arg, cajaLocal, posLocal, pedidosLocal,
                   facturacionLocal, acked, attempt, supplierOrders, generalStock,
                   supplierOrdersView>>

\* handleOrderSubmit(data); the dialog closes at its end
HandleOrderSubmit(c) ==
    /\ pc[c] = "idle"
    /\ orderDialog[c] = "order"
    /\ \E quantity \in OrderQuantities :
         LET dataToSave == [items |-> <<[name |-> "item", quantity |-> quantity]>>,
                            total |-> quantity * OrderItemPrice]
         IN  IF editingOrder[c] # NoOrder
             THEN LET u == Merge(dataToSave, [status |-> "Borrador"]) IN
                  /\ supplierOrders' = UpdateDoc(supplierOrders, editingOrder[c].id, u)
                  /\ supplierOrdersView' = [supplierOrdersView EXCEPT ![c] =
                                                LocalUpdate(@, editingOrder[c].id, u)]
                  /\ UNCHANGED usedIds
             ELSE /\ Cardinality(DOMAIN supplierOrders) < MaxSupplierOrders
                  /\ \E id \in FreshIds :
                       LET newOrder == Merge(dataToSave, [status |-> "Borrador"]) IN
                       /\ supplierOrders' = SetDoc(supplierOrders, id, newOrder)
                       /\ supplierOrdersView' = [supplierOrdersView EXCEPT ![c] =
                                                     @ \cup {mapDocTo(id, newOrder)}]
                       /\ usedIds' = usedIds \cup {id}
    /\ orderDialog' = [orderDialog EXCEPT ![c] = "closed"]
    /\ editingOrder' = [editingOrder EXCEPT ![c] = NoOrder]
    /\ UNCHANGED <<notificationsVars, vendedoresVars, cajaSessions, cajaHistory, products, orders, billableItems, invoices,
                   now, pc, arg, cajaLocal, posLocal, pedidosLocal, facturacionLocal,
                   acked, attempt, generalStock, orderToReceive>>

\* handleOrderStatusChange(orderId, newStatus), from the status menu of a row
HandleOrderStatusChange(c) ==
    /\ pc[c] = "idle"
    /\ orderDialog[c] = "closed"
    /\ \E row \in {o \in supplierOrdersView[c] : o.status \notin ReceivedStatuses},
          newStatus \in MenuStatuses :
         IF newStatus = "Recibido"
         THEN \* opens the receive dialog over the order as the list holds it
              /\ orderToReceive' = [orderToReceive EXCEPT ![c] = row]
              /\ orderDialog' = [orderDialog EXCEPT ![c] = "receive"]
              /\ UNCHANGED <<supplierOrders, supplierOrdersView>>
         ELSE /\ supplierOrders' = UpdateDoc(supplierOrders, row.id, [status |-> newStatus])
              /\ supplierOrdersView' = [supplierOrdersView EXCEPT ![c] =
                                            LocalUpdate(@, row.id, [status |-> newStatus])]
              /\ UNCHANGED <<orderToReceive, orderDialog>>
    /\ UNCHANGED <<notificationsVars, vendedoresVars, storeVars, now, pc, arg, cajaLocal, posLocal, pedidosLocal,
                   facturacionLocal, acked, attempt, generalStock, editingOrder>>

\* the lines of the receive form that add to general-stock
ReceivedSome(item) == item.receivedQuantity > 0

\* newStockItems: one record per line of the form with receivedQuantity > 0
newStockItems(items) ==
    LET receivedItemsForStock == SelectSeq(items, ReceivedSome)
    IN  [i \in DOMAIN receivedItemsForStock |->
            [name |-> receivedItemsForStock[i].name,
             quantity |-> receivedItemsForStock[i].receivedQuantity]]

\* receivedItemsForHistory: every line of the form
receivedItemsForHistory(items) ==
    [i \in DOMAIN items |-> [name |-> items[i].name, quantity |-> items[i].receivedQuantity]]

receivedStatusAlwaysFull(items) == "Recibido"

\* newStatus: isPartial ? "Recibido (Parcial)" : "Recibido"
receivedStatus(items) ==
    IF \E i \in DOMAIN items : items[i].receivedQuantity < items[i].orderedQuantity
    THEN "Recibido (Parcial)"
    ELSE "Recibido"

\* handleReceiveOrderSubmit(data) up to the end of its first await: the addDocs
\* of the received items to general-stock.  The form offers the ordered
\* quantity of every line; the user may lower it.
ReceiveAddStock(c) ==
    /\ pc[c] = "idle"
    /\ orderDialog[c] = "receive"
    /\ orderToReceive[c] # NoOrder
    /\ \E lower \in [DOMAIN orderToReceive[c].items -> {0, 1}] :
         LET ordered == orderToReceive[c].items
             data == [i \in DOMAIN ordered |->
                        [name |-> ordered[i].name, orderedQuantity |-> ordered[i].quantity,
                         receivedQuantity |-> ordered[i].quantity - lower[i]]]
         IN  /\ Len(generalStock) + Len(newStockItems(data)) <= MaxStockEntries
             /\ arg' = [arg EXCEPT ![c] = [items |-> data]]
             /\ generalStock' = generalStock \o newStockItems(data)
    /\ pc' = [pc EXCEPT ![c] = "receive_update"]
    /\ UNCHANGED <<notificationsVars, vendedoresVars, storeVars, now, cajaLocal, posLocal, pedidosLocal, facturacionLocal,
                   acked, attempt, supplierOrders, proveedoresLocal>>

\* handleReceiveOrderSubmit: the updateDoc of the order, then the dialog closes
ReceiveUpdate(c) ==
    /\ pc[c] = "receive_update"
    /\ LET u == [status |-> receivedStatus(arg[c].items),
                 receivedDate |-> now,
                 receivedItems |-> receivedItemsForHistory(arg[c].items)]
       IN  /\ supplierOrders' = UpdateDoc(supplierOrders, orderToReceive[c].id, u)
           /\ supplierOrdersView' = [supplierOrdersView EXCEPT ![c] =
                                         LocalUpdate(@, orderToReceive[c].id, u)]
    /\ orderDialog' = [orderDialog EXCEPT ![c] = "closed"]
    /\ orderToReceive' = [orderToReceive EXCEPT ![c] = NoOrder]
    /\ pc' = [pc EXCEPT ![c] = "idle"]
    /\ arg' = [arg EXCEPT ![c] = NoArg]
    /\ UNCHANGED <<notificationsVars, vendedoresVars, storeVars, now, cajaLocal, posLocal, pedidosLocal, facturacionLocal,
                   acked, attempt, generalStock, editingOrder>>

----------------------------------------------------------------------------
(* StockPage: fractioning of a raw material of general-stock.  A document of  *)
(* the collection is known by its position in the order of the addDocs; a     *)
(* name is the list of its words; unit, supplier, entryDate and notes are     *)
(* left out.  The page's list is the one of the store when the form is        *)
(* submitted, and the handler keeps that list and the item of the dialog      *)
(* until it ends.                                                             *)

MaxFraction == 2
FractionQuantities == 1..MaxFraction

\* String.prototype.replace(from, to): the first occurrence is replaced
RECURSIVE ReplaceFirst(_, _, _)
ReplaceFirst(name, from, to) ==
    IF name = <<>>
    THEN <<>>
    ELSE IF Head(name) = from
         THEN <<to>> \o Tail(name)
         ELSE <<Head(name)>> \o ReplaceFirst(Tail(name), from, to)

\* availableContainers, by id
availableContainers(list) ==
    {i \in DOMAIN list : list[i].category = "Envase" /\ list[i].quantity > 0}

\* labelToUse: the first label of the list named as the container with
\* 'Envase' replaced by 'Etiqueta'; 0 when find returns undefined
labelToUse(list, containerToUse) ==
    LET expectedLabelName == ReplaceFirst(containerToUse.name, "Envase", "Etiqueta")
        found == {i \in DOMAIN list : /\ list[i].name = expectedLabelName
                                      /\ list[i].category = "Etiqueta"}
    IN  IF found = {} THEN 0 ELSE SetMin(found)

\* the record of a submitted fractioning: the list the handler was created
\* with, and how the handler ended
FractionAttempt(list, result) == [kind |-> "fraction", generalStock |-> list, result |-> result]

\* updateDoc(doc(db, "general-stock", id), { quantity: quantity })
SetQuantity(id, quantity) == [generalStock EXCEPT ![id].quantity = quantity]

\* handleFractionSubmit up to the end of its first await: the check of the raw
\* material, then with an own container the check and the debit of the
\* container, with a container of a third party the debit of the raw material
FractionSubmit(c) ==
    /\ pc[c] = "idle"
    /\ \E id \in {i \in DOMAIN generalStock : generalStock[i].category = "Insumo"},
          amountToFraction \in FractionQuantities, resultingUnits \in FractionQuantities :
         LET fractioningItem == generalStock[id]
         IN  \/ /\ amountToFraction > fractioningItem.quantity
                /\ attempt' = [attempt EXCEPT ![c] = FractionAttempt(generalStock, "rejected")]
                /\ UNCHANGED <<generalStock, pc, arg>>
             \/ /\ amountToFraction <= fractioningItem.quantity
                /\ generalStock' = SetQuantity(id, fractioningItem.quantity - amountToFraction)
                /\ attempt' = [attempt EXCEPT ![c] = FractionAttempt(generalStock, "done")]
                /\ UNCHANGED <<pc, arg>>
             \/ /\ amountToFraction <= fractioningItem.quantity
                /\ \E ownContainerId \in availableContainers(generalStock), usesLabel \in BOOLEAN :
                     LET containerToUse == generalStock[ownContainerId]
                     IN  IF containerToUse.quantity < resultingUnits
                         THEN /\ attempt' = [attempt EXCEPT ![c] =
                                                FractionAttempt(generalStock, "rejected")]
                              /\ UNCHANGED <<generalStock, pc, arg>>
                         ELSE /\ generalStock' = SetQuantity(ownContainerId,
                                                    containerToUse.quantity - resultingUnits)
                              /\ attempt' = [attempt EXCEPT ![c] =
                                                FractionAttempt(generalStock, "running")]
                              /\ arg' = [arg EXCEPT ![c] =
                                            [id |-> id, fractioningItem |-> fractioningItem,
                                             amountToFraction |-> amountToFraction,
                                             resultingUnits |-> resultingUnits,
                                             ownContainerId |-> ownContainerId,
                                             usesLabel |-> usesLabel]]
                              /\ pc' = [pc EXCEPT ![c] = "fraction_label"]
    /\ UNCHANGED <<notificationsVars, storeVars, now, cajaLocal, posLocal, pedidosLocal, facturacionLocal,
                   acked, supplierOrders, proveedoresLocal, vendedoresVars>>

\* handleFractionSubmit after the debit of the container: the checks and the
\* debit of the label when the form asks for one, else the debit of the raw
\* material
FractionLabel(c) ==
    /\ pc[c] = "fraction_label"
    /\ LET list == attempt[c].generalStock
           data == arg[c]
           label == labelToUse(list, list[data.ownContainerId])
       IN  IF data.usesLabel
           THEN IF label = 0 \/ list[label].quantity < data.resultingUnits
                THEN /\ attempt' = [attempt EXCEPT ![c].result = "rejected"]
                     /\ pc' = [pc EXCEPT ![c] = "idle"]
                     /\ arg' = [arg EXCEPT ![c] = NoArg]
                     /\ UNCHANGED generalStock
                ELSE /\ generalStock' = SetQuantity(label, list[label].quantity - data.resultingUnits)
                     /\ pc' = [pc EXCEPT ![c] = "fraction_raw"]
                     /\ UNCHANGED <<attempt, arg>>
           ELSE /\ generalStock' = SetQuantity(data.id,
                                      data.fractioningItem.quantity - data.amountToFraction)
                /\ attempt' = [attempt EXCEPT ![c].result = "done"]
                /\ pc' = [pc EXCEPT ![c] = "idle"]
                /\ arg' = [arg EXCEPT ![c] = NoArg]
    /\ UNCHANGED <<notificationsVars, storeVars, now, cajaLocal, posLocal, pedidosLocal, facturacionLocal,
                   acked, supplierOrders, proveedoresLocal, vendedoresVars>>

\* handleFractionSubmit after the debit of the label: the debit of the raw
\* material
FractionRaw(c) ==
    /\ pc[c] = "fraction_raw"
    /\ generalStock' = SetQuantity(arg[c].id,
                          arg[c].fractioningItem.quantity - arg[c].amountToFraction)
    /\ attempt' = [attempt EXCEPT ![c].result = "done"]
    /\ pc' = [pc EXCEPT ![c] = "idle"]
    /\ arg' = [arg EXCEPT ![c] = NoArg]
    /\ UNCHANGED <<notificationsVars, storeVars, now, cajaLocal, posLocal, pedidosLocal, facturacionLocal,
                   acked, supplierOrders, proveedoresLocal, vendedoresVars>>

----------------------------------------------------------------------------
(* ReportesPage and DashboardPage: the revenue figures.  The lists of the    *)
(* page are the collections of the store; createdAt and the items of a sale  *)
(* are left out.                                                              *)

\* session.sales.reduce((sum, sale) => sum + sale.total, 0), over one session
RECURSIVE SumOfTotals(_)
SumOfTotals(sales) ==
    IF sales = <<>> THEN 0 ELSE Head(sales).total + SumOfTotals(Tail(sales))

\* allSales = [...cashSales, ...orders] and totalRevenue: the totals of the
\* sales of every closed session, and the total of every order
totalRevenue(history, ords) ==
    SumOver(DOMAIN history, [d \in DOMAIN history |-> SumOfTotals(history[d].sales)])
    + SumOver(DOMAIN ords, [d \in DOMAIN ords |-> ords[d].total])

\* totalSalesCount = allSales.length
totalSalesCount(history, ords) ==
    SumOver(DOMAIN history, [d \in DOMAIN history |-> Len(history[d].sales)])
    + Cardinality(DOMAIN ords)

----------------------------------------------------------------------------
(* useProvideNotifications: the notifications of one browser.  The lists of  *)
(* products and invoices of the hook are the collections of the store; a     *)
(* date is a number of days and today is `now`; title, description,          *)
(* timestamp and href of a notification are left out.  New notifications     *)
(* carry the latest timestamps, so the sort leaves them first.               *)

LOW_STOCK_THRESHOLD == 10
DUE_SOON_DAYS == 3

\* the elements of a set, one after the other as forEach meets them
RECURSIVE SeqOfSet(_)
SeqOfSet(S) ==
    IF S = {} THEN <<>>
    ELSE LET x == CHOOSE y \in S : TRUE IN <<x>> \o SeqOfSet(S \ {x})

\* updatedNotifications.filter(n => !n.read)
Unread(list) == SelectSeq(list, LAMBDA n : ~n.read)

\* the ids of the low-stock notifications to push
lowStockIds(existingNotificationIds) ==
    {<<"low-stock", p>> : p \in {q \in DOMAIN products :
        /\ products[q].stock > 0
        /\ products[q].stock <= LOW_STOCK_THRESHOLD
        /\ <<"low-stock", q>> \notin existingNotificationIds}}

\* the ids of the invoice notifications to push: overdue, else due soon
invoiceIds(existingNotificationIds) ==
    {<<"invoice-overdue", i>> : i \in {j \in DOMAIN invoices :
        /\ invoices[j].status = "Pendiente"
        /\ invoices[j].dueDate < now
        /\ <<"invoice-overdue", j>> \notin existingNotificationIds}}
    \cup
    {<<"invoice-due", i>> : i \in {j \in DOMAIN invoices :
        /\ invoices[j].status = "Pendiente"
        /\ ~(invoices[j].dueDate < now /\ <<"invoice-overdue", j>> \notin existingNotificationIds)
        /\ ~(invoices[j].dueDate < now)
        /\ now <= invoices[j].dueDate /\ invoices[j].dueDate <= now + DUE_SOON_DAYS
        /\ <<"invoice-due", j>> \notin existingNotificationIds}}

\* newNotifications
newNotifications(currentNotifications) ==
    LET existingNotificationIds ==
            {currentNotifications[i].id : i \in DOMAIN currentNotifications}
        ids == SeqOfSet(lowStockIds(existingNotificationIds))
               \o SeqOfSet(invoiceIds(existingNotificationIds))
    IN  [i \in DOMAIN ids |-> [id |-> ids[i], read |-> FALSE]]

\* generateNotifications, as the polling effect calls it
GenerateNotifications(c) ==
    /\ DOMAIN products # {} \/ DOMAIN invoices # {}
    /\ LET currentNotifications == localStorage[c]
           new == newNotifications(currentNotifications)
           updated == new \o currentNotifications
       IN  IF new # <<>>
           THEN \* saveNotifications(updated)
                /\ notifications' = [notifications EXCEPT ![c] = updated]
                /\ localStorage' = [localStorage EXCEPT ![c] = Unread(updated)]
           ELSE /\ notifications' = [notifications EXCEPT ![c] = currentNotifications]
                /\ UNCHANGED localStorage
    /\ UNCHANGED <<storeVars, now, pc, arg, cajaLocal, posLocal, pedidosLocal,
                   facturacionLocal, acked, attempt, proveedoresVars, vendedoresVars>>

\* markAsRead(id), then saveNotifications(updated)
MarkAsRead(c) ==
    /\ \E k \in DOMAIN notifications[c] :
         LET id == notifications[c][k].id
             updated == [i \in DOMAIN notifications[c] |->
                            IF notifications[c][i].id = id
                            THEN [notifications[c][i] EXCEPT !.read = TRUE]
                            ELSE notifications[c][i]]
         IN  /\ notifications' = [notifications EXCEPT ![c] = updated]
             /\ localStorage' = [localStorage EXCEPT ![c] = Unread(updated)]
    /\ UNCHANGED <<storeVars, now, pc, arg, cajaLocal, posLocal, pedidosLocal,
                   facturacionLocal, acked, attempt, proveedoresVars, vendedoresVars>>

\* markAllAsRead, then saveNotifications(updated)
MarkAllAsRead(c) ==
    /\ notifications[c] # <<>>
    /\ LET updated == [i \in DOMAIN notifications[c] |->
                          [notifications[c][i] EXCEPT !.read = TRUE]]
       IN  /\ notifications' = [notifications EXCEPT ![c] = updated]
           /\ localStorage' = [localStorage EXCEPT ![c] = Unread(updated)]
    /\ UNCHANGED <<storeVars, now, pc, arg, cajaLocal, posLocal, pedidosLocal,
                   facturacionLocal, acked, attempt, proveedoresVars, vendedoresVars>>

----------------------------------------------------------------------------
(* Specifications *)

InitLocal ==
    /\ pc = [c \in Clients |-> "idle"]
    /\ arg = [c \in Clients |-> NoArg]
    /\ session = [c \in Clients |-> <<>>]
    /\ cart = [c \in Clients |-> <<>>]
    /\ ordersView = [c \in Clients |-> {}]
    /\ billableView = [c \in Clients |-> {}]
    /\ invoicesView = [c \in Clients |-> {}]
    /\ acked = {}
    /\ attempt = [c \in Clients |-> NoAttempt]
    /\ supplierOrdersView = [c \in Clients |-> {}]
    /\ orderDialog = [c \in Clients |-> "closed"]
    /\ editingOrder = [c \in Clients |-> [id |-> Null]]
    /\ orderToReceive = [c \in Clients |-> [id |-> Null]]
    /\ sellersView = [c \in Clients |-> {}]
    /\ productsView = [c \in Clients |-> <<>>]
    /\ assigningToSeller = [c \in Clients |-> [id |-> Null]]
    /\ sellingForSeller = [c \in Clients |-> [id |-> Null]]
    /\ saleCart = [c \in Clients |-> <<>>]
    /\ sellerForAction = [c \in Clients |-> [id |-> Null]]
    /\ notifications = [c \in Clients |-> <<>>]
    /\ localStorage = [c \in Clients |-> <<>>]

Init ==
    /\ cajaSessions = <<>>
    /\ cajaHistory = <<>>
    /\ supplierOrders = <<>>
    /\ generalStock = <<>>
    /\ sellers = <<>>
    /\ products = <<>>
    /\ orders = <<>>
    /\ billableItems = <<>>
    /\ invoices = <<>>
    /\ usedIds = {}
    /\ now = 0
    /\ InitLocal

Next ==
    \E c \in Clients :
        \/ SessionSnapshot(c)
        \/ OpenBoxCheck(c)
        \/ OpenBoxAdd(c)
        \/ AddExpense(c)
        \/ CloseBoxSet(c)
        \/ CloseBoxDelete(c)

Spec == Init /\ [][Next]_vars

\* The point of sale against a cash session that the other client opens
InitPos ==
    /\ cajaSessions = <<>>
    /\ cajaHistory = <<>>
    /\ supplierOrders = <<>>
    /\ generalStock = <<>>
    /\ sellers = <<>>
    /\ \E st \in [Products -> InitStocks] :
         products = [p \in Products |-> [stock |-> st[p], price |-> Price[p]]]
    /\ orders = <<>>
    /\ billableItems = <<>>
    /\ invoices = <<>>
    /\ usedIds = {}
    /\ now = 0
    /\ InitLocal

NextPos ==
    \/ OpenBoxCheck("c1")
    \/ OpenBoxAdd("c1")
    \/ AddToCart("c2")
    \/ HandleProceed("c2")
    \/ FinalizeSaleStock("c2")
    \/ RegisterSale("c2")
    \/ AccountAddBillable("c2")
    \/ AccountStock("c2")

SpecPos == InitPos /\ [][NextPos]_vars

\* The point of sale creating delivery orders, the orders page collecting them,
\* and a cash session being opened
NextOrders ==
    \/ OpenBoxCheck("c1")
    \/ OpenBoxAdd("c1")
    \/ AddToCart("c2")
    \/ CreateOrderAdd("c2")
    \/ CreateOrderStock("c2")
    \/ OrdersSnapshot("c1")
    \/ HandlePaymentInCash("c1")
    \/ PedidosAccountAdd("c1")
    \/ PedidosAccountUpdate("c1")

\* the catalogue with every product at the larger initial stock
InitOrders ==
    /\ cajaSessions = <<>>
    /\ cajaHistory = <<>>
    /\ supplierOrders = <<>>
    /\ generalStock = <<>>
    /\ sellers = <<>>
    /\ products = [p \in Products |-> [stock |-> 5, price |-> Price[p]]]
    /\ orders = <<>>
    /\ billableItems = <<>>
    /\ invoices = <<>>
    /\ usedIds = {}
    /\ now = 0
    /\ InitLocal

SpecOrders == InitOrders /\ [][NextOrders]_vars

\* number of billable items stored before invoicing starts
MaxBillable == 2
ItemTotals == {90, 150}

\* The invoicing page of two clients, over billable items as the on-account
\* flows of the point of sale and of the orders page store them
InitInv ==
    /\ cajaSessions = <<>>
    /\ cajaHistory = <<>>
    /\ supplierOrders = <<>>
    /\ generalStock = <<>>
    /\ sellers = <<>>
    /\ products = <<>>
    /\ orders = <<>>
    /\ \E k \in 1..MaxBillable :
       \E cust \in [1..k -> Customers], tot \in [1..k -> ItemTotals],
          flow \in [1..k -> {"pos-sale", "delivery-order"}] :
         /\ billableItems =
               [d \in {<<"doc", n>> : n \in 1..k} |->
                  IF flow[d[2]] = "pos-sale"
                  THEN BillableSale(d[2], cust[d[2]], tot[d[2]])
                  ELSE BillableOrder([id |-> <<"PED", d[2]>>, total |-> tot[d[2]]],
                                     cust[d[2]])]
         /\ usedIds = {<<"doc", n>> : n \in 1..k}
    /\ invoices = <<>>
    /\ now = 0
    /\ InitLocal

NextInv ==
    \E c \in Clients :
        \/ FacturacionSnapshot(c)
        \/ GenerateInvoice(c)
        \/ RegisterPayment(c)

SpecInv == InitInv /\ [][NextInv]_vars

\* customerBalances as a function of the list of invoices
NextBalance == ComputeBalances("c1")

SpecBalance == Init /\ [][NextBalance]_vars

\* expectedTotals and differences as functions of the session
NextTotals == ComputeTotals("c1")

SpecTotals == Init /\ [][NextTotals]_vars

\* opening the cash session, by two clients that listen to the live sessions
NextOpen == \E c \in Clients : SessionSnapshot(c) \/ OpenBoxCheck(c) \/ OpenBoxAdd(c)

SpecOpen == Init /\ [][NextOpen]_vars

\* immediate-payment sales of one point of sale
NextSale ==
    \/ AddToCart("c2")
    \/ FinalizeSaleStock("c2")
    \/ RegisterSale("c2")

SpecSale == InitPos /\ [][NextSale]_vars

\* calculateSellerStock as a function of the seller and the list of products
NextSeller == ComputeSellerStock("c1")

SpecSeller == Init /\ [][NextSeller]_vars

\* the supplier orders page of two clients
NextSuppliers ==
    \E c \in Clients :
        \/ SupplierOrdersSnapshot(c)
        \/ HandleOpenOrderDialog(c)
        \/ CancelOrderDialog(c)
        \/ HandleOrderSubmit(c)
        \/ HandleOrderStatusChange(c)
        \/ ReceiveAddStock(c)
        \/ ReceiveUpdate(c)

SpecSuppliers == Init /\ [][NextSuppliers]_vars

\* an order of one or two lines, in transit, as the order form and the status
\* menu leave it
MaxOrderLines == 2
OrderLines == [name : {"item", "item2"}, quantity : OrderQuantities]
OrdersInTransit ==
    {[status |-> "En tránsito", items |-> items,
      total |-> SumOver(DOMAIN items, [i \in DOMAIN items |-> items[i].quantity * OrderItemPrice])] :
        items \in SeqsUpTo(OrderLines, MaxOrderLines) \ {<<>>}}

InitReceive ==
    /\ cajaSessions = <<>>
    /\ cajaHistory = <<>>
    /\ \E order \in OrdersInTransit : supplierOrders = SetDoc(<<>>, <<"doc", 1>>, order)
    /\ generalStock = <<>>
    /\ sellers = <<>>
    /\ products = <<>>
    /\ orders = <<>>
    /\ billableItems = <<>>
    /\ invoices = <<>>
    /\ usedIds = {<<"doc", 1>>}
    /\ now = 0
    /\ InitLocal

\* one client receiving the order
NextReceive ==
    \/ SupplierOrdersSnapshot("c1")
    \/ HandleOrderStatusChange("c1")
    \/ CancelOrderDialog("c1")
    \/ ReceiveAddStock("c1")
    \/ ReceiveUpdate("c1")

SpecReceive == InitReceive /\ [][NextReceive]_vars

\* the sellers page of two clients: one seller, as handleSaveSeller stores it,
\* and a catalogue of one product
InitSellerStock == 2
NewSeller == [assignedStock |-> <<>>, sales |-> <<>>, returns |-> <<>>, balance |-> 0]

InitSellers ==
    /\ cajaSessions = <<>>
    /\ cajaHistory = <<>>
    /\ supplierOrders = <<>>
    /\ generalStock = <<>>
    /\ sellers = SetDoc(<<>>, <<"doc", 1>>, NewSeller)
    /\ products = [p \in {"p1"} |-> [stock |-> InitSellerStock, price |-> Price[p]]]
    /\ orders = <<>>
    /\ billableItems = <<>>
    /\ invoices = <<>>
    /\ usedIds = {<<"doc", 1>>}
    /\ now = 0
    /\ InitLocal

\* one client on the sellers page
NextSellers ==
    \/ VendedoresProductsSnapshot("c1")
    \/ SellersSnapshot("c1")
    \/ OpenAssignmentView("c1")
    \/ OpenSaleView("c1")
    \/ OpenActionDialog("c1")
    \/ CloseSellerView("c1")
    \/ ConfirmAssignmentStock("c1")
    \/ ConfirmAssignmentSeller("c1")
    \/ AddToSaleCart("c1")
    \/ ConfirmSale("c1")
    \/ RegisterReturn("c1")
    \/ RegisterReturnSeller("c1")

SpecSellers == InitSellers /\ [][NextSellers]_vars

\* two clients assigning stock to the seller and registering its returns
NextConsign ==
    \E c \in Clients :
        \/ VendedoresProductsSnapshot(c)
        \/ SellersSnapshot(c)
        \/ OpenAssignmentView(c)
        \/ OpenActionDialog(c)
        \/ ConfirmAssignmentStock(c)
        \/ ConfirmAssignmentSeller(c)
        \/ RegisterReturn(c)
        \/ RegisterReturnSeller(c)

SpecConsign == InitSellers /\ [][NextConsign]_vars

\* the write-back of the balances: two viewers load the sellers page on a
\* store of two sellers whose stored balances may be stale; nobody acts on the
\* sellers or on the catalogue
MaxWriteBackLines == 2
StaleBalances == {0, 7}
WriteBackLines == [productId : Products, quantity : {1, 2}]
WriteBackSellers ==
    {[assignedStock |-> a, sales |-> s, returns |-> r, balance |-> b] :
        a \in SeqsUpTo(WriteBackLines, MaxWriteBackLines),
        s \in {<<>>, <<[items |-> <<[productId |-> "p1", quantity |-> 1]>>]>>},
        r \in {<<>>, <<[productId |-> "p1", quantity |-> 1, reason |-> "Dañado"]>>},
        b \in StaleBalances}

InitWriteBack ==
    /\ cajaSessions = <<>>
    /\ cajaHistory = <<>>
    /\ supplierOrders = <<>>
    /\ generalStock = <<>>
    /\ \E first \in WriteBackSellers, b \in StaleBalances :
          /\ first.returns # <<>> =>
                \E i \in DOMAIN first.assignedStock : first.assignedStock[i].productId = "p1"
          /\ sellers = SetDoc(SetDoc(<<>>, <<"doc", 1>>, first),
                              <<"doc", 2>>, [NewSeller EXCEPT !.balance = b])
    /\ products = [p \in Products |-> [stock |-> InitSellerStock, price |-> Price[p]]]
    /\ orders = <<>>
    /\ billableItems = <<>>
    /\ invoices = <<>>
    /\ usedIds = {<<"doc", 1>>, <<"doc", 2>>}
    /\ now = 0
    /\ InitLocal

NextWriteBack ==
    \E c \in Clients :
        \/ VendedoresProductsSnapshot(c)
        \/ SellersSnapshot(c)

\* a subscribed listener is called with every snapshot of its query
SpecWriteBack ==
    /\ InitWriteBack
    /\ [][NextWriteBack]_vars
    /\ \A c \in Clients : WF_vars(VendedoresProductsSnapshot(c)) /\ WF_vars(SellersSnapshot(c))

\* the stock page of one client: a raw material, a container and, or not, the
\* label of the container
RawMaterial(q) == [name |-> <<"Cloro">>, category |-> "Insumo", quantity |-> q]
Container(q) == [name |-> <<"Envase", "1L">>, category |-> "Envase", quantity |-> q]
Label(q) == [name |-> <<"Etiqueta", "1L">>, category |-> "Etiqueta", quantity |-> q]

InitFraction ==
    /\ cajaSessions = <<>>
    /\ cajaHistory = <<>>
    /\ supplierOrders = <<>>
    /\ \E q \in FractionQuantities, qc \in FractionQuantities :
          \/ generalStock = <<RawMaterial(q), Container(qc)>>
          \/ \E ql \in FractionQuantities :
                generalStock = <<RawMaterial(q), Container(qc), Label(ql)>>
    /\ sellers = <<>>
    /\ products = [p \in Products |-> [stock |-> 1, price |-> Price[p]]]
    /\ orders = <<>>
    /\ billableItems = <<>>
    /\ invoices = <<>>
    /\ usedIds = {}
    /\ now = 0
    /\ InitLocal

NextFraction ==
    \/ FractionSubmit("c1")
    \/ FractionLabel("c1")
    \/ FractionRaw("c1")

SpecFraction == InitFraction /\ [][NextFraction]_vars

\* the reports over a day of delivery orders: c2 sells at the point of sale, c1
\* opens the cash session, collects the orders and closes the session
NextReports ==
    \/ OpenBoxCheck("c1")
    \/ OpenBoxAdd("c1")
    \/ SessionSnapshot("c1")
    \/ AddToCart("c2")
    \/ CreateOrderAdd("c2")
    \/ CreateOrderStock("c2")
    \/ OrdersSnapshot("c1")
    \/ HandlePaymentInCash("c1")
    \/ CloseBoxSet("c1")
    \/ CloseBoxDelete("c1")

SpecReports == InitOrders /\ [][NextReports]_vars

\* the notifications of one browser over a catalogue and at most one invoice
\* that nobody changes; today is day 1
NotifiedStocks == {0, 5, 20}
DueDates == {0, 2, 9}

InitNotifications ==
    /\ cajaSessions = <<>>
    /\ cajaHistory = <<>>
    /\ supplierOrders = <<>>
    /\ generalStock = <<>>
    /\ sellers = <<>>
    /\ \E st \in [Products -> NotifiedStocks] :
         products = [p \in Products |-> [stock |-> st[p], price |-> Price[p]]]
    /\ orders = <<>>
    /\ billableItems = <<>>
    /\ \/ invoices = <<>>
       \/ \E status \in {"Pendiente", "Pagada"}, dueDate \in DueDates :
             invoices = [i \in {"i1"} |-> [status |-> status, dueDate |-> dueDate]]
    /\ usedIds = {}
    /\ now = 1
    /\ InitLocal

NextNotifications ==
    \/ GenerateNotifications("c1")
    \/ MarkAsRead("c1")
    \/ MarkAllAsRead("c1")

SpecNotifications == InitNotifications /\ [][NextNotifications]_vars

----------------------------------------------------------------------------
(* Claims *)

ItemIds(seq) == {seq[i].id : i \in DOMAIN seq}

\* C1: at most one cash session is open at any time: the live collection
\* caja-sessions never holds more than one session.
C1_AtMostOneOpenSession == Cardinality(DOMAIN cajaSessions) <= 1

\* C2: appends to the open session are atomic: every sale and every expense
\* whose append was reported as successful is present in the arrays of the
\* session it was appended to, for as long as that session is live.
C2_AppendsAreAtomic ==
    \A a \in acked :
        Exists(cajaSessions, a.sid) => a.id \in ItemIds(cajaSessions[a.sid][a.field])

\* C3: closing is an atomic move: whenever no close is between its two writes
\* (also after a close whose second write failed), every session that was opened
\* is in exactly one of caja-sessions and caja-history.
C3_CloseIsAtomicMove ==
    (\A c \in Clients : pc[c] # "close_delete") =>
        \A id \in usedIds : Exists(cajaSessions, id) # Exists(cajaHistory, id)

SaleAttempts == {"sale", "account"}

\* C4: recordSale from the point of sale: when a session created by 'open' is
\* live, registering a sale appends it and reports success; when no session is
\* live it reports failure.
C4_RecordSaleFollowsLiveSession ==
    \A c \in Clients :
        (attempt[c].kind \in SaleAttempts /\ attempt[c].outcome # "pending") =>
            (attempt[c].live <=> attempt[c].outcome = "registered")

\* C5: a point-of-sale finalization that is rejected because no cash session is
\* open leaves every product's stock and the billable-items collection exactly
\* as they were before the attempt.
C5_RejectedSaleChangesNothing ==
    \A c \in Clients :
        (attempt[c].kind \in SaleAttempts /\ attempt[c].outcome = "rejected"
            /\ ~attempt[c].live) =>
            /\ products = attempt[c].before.products
            /\ DOMAIN billableItems = attempt[c].before.billable

\* C6: the stock of every product is >= 0 in every reachable state.
C6_StockNeverNegative == \A p \in DOMAIN products : products[p].stock >= 0

OrderDocs(oid) == {d \in DOMAIN orders : orders[d].id = oid}
SalesFor(oid) ==
    UNION {{<<d, i>> : i \in {j \in DOMAIN cajaSessions[d].sales :
                                cajaSessions[d].sales[j].id = <<"VTA-PED", oid[2]>>}}
           : d \in DOMAIN cajaSessions}
BillablesFor(oid) == {b \in DOMAIN billableItems : billableItems[b].id = <<"BO", oid[2]>>}

\* C7: collecting a delivery order created by the point of sale sets the order's
\* status to "Entregado" and creates exactly one money record: a sale in the open
\* cash session for a cash, card or transfer method, or one billable item with
\* invoiced = FALSE for on-account; success is never reported with neither record.
C7_CollectingAnOrder ==
    \A c \in Clients :
        (attempt[c].kind = "collect" /\ attempt[c].outcome # "pending") =>
            LET a == attempt[c] IN
            /\ \A d \in OrderDocs(a.order) : orders[d].status = "Entregado"
            /\ IF a.method = "Cuenta Corriente"
               THEN /\ Cardinality(BillablesFor(a.order)) = 1
                    /\ \A b \in BillablesFor(a.order) :
                          /\ billableItems[b].invoiced = FALSE
                          /\ billableItems[b].customerId = a.customer
               ELSE a.live => Cardinality(SalesFor(a.order)) = 1
            /\ a.outcome # "error" => SalesFor(a.order) \cup BillablesFor(a.order) # {}

\* the id under which the pages know the billable item stored as document b
ItemId(b) == mapDocTo(b, billableItems[b]).id

\* C8: generating an invoice over a non-empty selection of uninvoiced billable
\* items of one customer creates exactly one invoice, sets invoiced = TRUE and
\* invoiceId = the new invoice's id on every selected item, and changes no other
\* billable item.
C8_GenerateInvoiceMarksSelection ==
    [][\A c \in Clients :
          GenerateInvoice(c) =>
            \E inv \in InvoiceIds \ DOMAIN invoices :
              /\ DOMAIN invoices' = DOMAIN invoices \cup {inv}
              /\ DOMAIN billableItems' = DOMAIN billableItems
              /\ \A b \in DOMAIN billableItems :
                    IF ItemId(b) \in attempt'[c].selected
                    THEN /\ "invoiceId" \in DOMAIN billableItems'[b]
                         /\ billableItems'[b].invoiced
                         /\ billableItems'[b].invoiceId = inv
                    ELSE billableItems'[b] = billableItems[b]]_vars

InvoicedBy(inv) ==
    {ItemId(b) : b \in {d \in DOMAIN billableItems :
                          /\ billableItems[d].invoiced
                          /\ "invoiceId" \in DOMAIN billableItems[d]
                          /\ billableItems[d].invoiceId = inv}}

OpenInvoicesOf(invs, k) ==
    {i \in DOMAIN invs : invs[i].customerId = k
                         /\ invs[i].status \in {"Pendiente", "Vencida"}}

SalesWith(sales, methods) == {i \in DOMAIN sales : sales[i].paymentMethod \in methods}
SumSales(sales, idx) == SumOver(idx, [i \in DOMAIN sales |-> sales[i].total])

\* C13: session totals conservation: the expected Total of a session equals the
\* sum of the four expected totals per method and equals the sum of the totals
\* of the session's sales.
C13_TotalsConservation ==
    \A c \in Clients :
        attempt[c].kind = "totals" =>
          LET e == attempt[c].expected
              sales == attempt[c].session.sales
          IN  /\ e["Total"] = e["Efectivo"] + e["Tarjeta"] + e["Transferencia"]
                                + e["Cuenta Corriente"]
              /\ e["Total"] = SumSales(sales, DOMAIN sales)

\* a session with two sales of different methods
C13_Witness ==
    /\ attempt["c1"].kind = "totals"
    /\ LET sales == attempt["c1"].session.sales IN
       /\ Len(sales) = 2
       /\ sales[1].paymentMethod = "Efectivo"
       /\ sales[2].paymentMethod = "Cuenta Corriente"
    /\ attempt["c1"].expected["Total"] = 80005

C15_OpenBox ==
    [][\A c \in Clients :
          /\ (OpenBoxCheck(c) /\ DOMAIN cajaSessions # {}) =>
                /\ UNCHANGED storeVars
                /\ pc'[c] = "idle"
                /\ attempt'[c].outcome = "Ya existe una caja activa"
          /\ (OpenBoxCheck(c) /\ DOMAIN cajaSessions = {}) =>
                /\ UNCHANGED storeVars
                /\ pc'[c] = "open_add"
                /\ arg'[c].initialAmount >= 0
          /\ OpenBoxAdd(c) =>
                /\ Cardinality(DOMAIN cajaSessions' \ DOMAIN cajaSessions) = 1
                /\ \A id \in DOMAIN cajaSessions : cajaSessions'[id] = cajaSessions[id]
                /\ \A id \in DOMAIN cajaSessions' \ DOMAIN cajaSessions :
                      /\ cajaSessions'[id].initialAmount = arg[c].initialAmount
                      /\ cajaSessions'[id].sales = <<>>
                      /\ cajaSessions'[id].expenses = <<>>
                /\ UNCHANGED <<cajaHistory, products, orders, billableItems, invoices>>]_vars

\* one client has opened a session with 100 and the other's open was rejected
C15_Witness ==
    /\ attempt["c1"] = [kind |-> "open", outcome |-> "Caja Abierta"]
    /\ attempt["c2"] = [kind |-> "open", outcome |-> "Ya existe una caja activa"]
    /\ Cardinality(DOMAIN cajaSessions) = 1
    /\ \A id \in DOMAIN cajaSessions :
          cajaSessions[id] = [initialAmount |-> 100, sales |-> <<>>, expenses |-> <<>>]

\* C16: the computed stock of a combo is the minimum over its components of
\* floor(component stock / component quantity), and 0 if the combo has no
\* components or a component is missing or insufficient; hence it is at most
\* floor(stock / quantity) of every component, and decreasing the stock of a
\* component never increases it.
C16_ComboStock ==
    \A k \in DOMAIN ComboCatalog :
        LET combo == ComboCatalog[k]
            comps == DOMAIN combo.products
            computed == calculateComboStock(combo, products)
            short == \E p \in comps : \/ p \notin DOMAIN products
                                      \/ products[p].stock < combo.products[p]
        IN  /\ computed = IF comps = {} \/ short
                          THEN 0
                          ELSE SetMin({products[p].stock \div combo.products[p] : p \in comps})
            /\ \A p \in comps \cap DOMAIN products :
                   /\ computed <= products[p].stock \div combo.products[p]
                   /\ calculateComboStock(combo,
                          [products EXCEPT ![p] = [@ EXCEPT !.stock = @ - 1]]) <= computed

\* the cart lines of combos that contain product p
ComboLinesWith(ct, p) ==
    {k \in DOMAIN ct \cap DOMAIN ComboCatalog : p \in DOMAIN ComboCatalog[k].products}

\* C17: finalizing a sale debits the stock of every product by its cart
\* quantity and, for every combo line, by component quantity x cart quantity,
\* and leaves the stock of all other products unchanged; from stock 5, selling
\* 2 gives 3, and a combo that needs 2 of the product then shows 1.
C17_SaleDebitsStock ==
    [][FinalizeSaleStock("c2") =>
          /\ DOMAIN products' = DOMAIN products
          /\ \A p \in DOMAIN products :
                LET line == IF p \in DOMAIN cart["c2"] THEN cart["c2"][p] ELSE 0
                    fanOut == SumOver(ComboLinesWith(cart["c2"], p),
                                  [k \in ComboLinesWith(cart["c2"], p) |->
                                      ComboCatalog[k].products[p] * cart["c2"][k]])
                IN  /\ products'[p].stock = products[p].stock - line - fanOut
                    /\ products'[p].price = products[p].price
                    /\ (p \notin DOMAIN cart["c2"] /\ ComboLinesWith(cart["c2"], p) = {})
                          => products'[p] = products[p]
          /\ (/\ cart["c2"] = [p1 |-> 2]
              /\ products["p1"].stock = 5
              /\ products["p2"].stock >= 1) =>
                /\ products'["p1"].stock = 3
                /\ calculateComboStock(ComboCatalog["k1"], products') = 1]_vars

\* a sale of 2 of p1 was finalized at stock 5 and the combo k1 shows 1
C17_Witness ==
    /\ attempt["c2"].kind = "sale"
    /\ attempt["c2"].before.products["p1"].stock = 5
    /\ cart["c2"] = [p1 |-> 2]
    /\ pc["c2"] = "register"
    /\ products["p1"].stock = 3
    /\ calculateComboStock(ComboCatalog["k1"], products) = 1

\* sum of the quantities of the entries of a list that name product p
QuantityOf(items, p) ==
    SumOver({i \in DOMAIN items : items[i].productId = p},
            [i \in DOMAIN items |-> items[i].quantity])

SoldQuantityOf(sales, p) ==
    SumOver(DOMAIN sales, [i \in DOMAIN sales |-> QuantityOf(sales[i].items, p)])

\* C18: for every seller and every product of the catalogue, the consigned
\* quantity is the sum of the assigned quantities minus the sold and the
\* returned ones, and the result lists exactly the products whose quantity is
\* greater than 0.
C18_ConsignedStock ==
    attempt["c1"].kind = "sellerStock" =>
        LET seller == attempt["c1"].seller
            result == attempt["c1"].result
        IN  /\ \A p \in DOMAIN result : result[p] > 0
            /\ \A p \in attempt["c1"].localProducts :
                  LET quantity == QuantityOf(seller.assignedStock, p)
                                  - SoldQuantityOf(seller.sales, p)
                                  - QuantityOf(seller.returns, p)
                  IN  IF quantity > 0
                      THEN p \in DOMAIN result /\ result[p] = quantity
                      ELSE p \notin DOMAIN result

\* assigned 10, sold 3, returned 1 of p1: the list holds p1 with 6
C18_Witness ==
    /\ attempt["c1"].kind = "sellerStock"
    /\ attempt["c1"].seller =
          [assignedStock |-> <<[productId |-> "p1", quantity |-> 10]>>,
           sales |-> <<[items |-> <<[productId |-> "p1", quantity |-> 3]>>]>>,
           returns |-> <<[productId |-> "p1", quantity |-> 1]>>]
    /\ attempt["c1"].result = [p1 |-> 6]

\* the steps of the chain Borrador -> Confirmado -> En tránsito -> received
ForwardSteps ==
    {<<"Borrador", "Confirmado">>, <<"Confirmado", "En tránsito">>,
     <<"En tránsito", "Recibido">>, <<"En tránsito", "Recibido (Parcial)">>}

\* C19: every change of the status of a supplier order is one forward step of
\* the chain: no order moves back to an earlier status, and none enters a
\* received status from a status other than En tránsito.
C19_ForwardSteps ==
    [][\A id \in DOMAIN supplierOrders :
          supplierOrders'[id].status # supplierOrders[id].status =>
              <<supplierOrders[id].status, supplierOrders'[id].status>> \in ForwardSteps]_vars

\* C20: a received order never changes again: no later step of any client
\* changes its status, its items or its receivedItems.
C20_ReceivedIsTerminal ==
    [][\A id \in DOMAIN supplierOrders :
          supplierOrders[id].status \in ReceivedStatuses =>
              /\ supplierOrders'[id].status = supplierOrders[id].status
              /\ supplierOrders'[id].items = supplierOrders[id].items
              /\ supplierOrders'[id].receivedItems = supplierOrders[id].receivedItems]_vars

\* C21: a receipt sets the status to Recibido (Parcial) if a line was received
\* below its ordered quantity and to Recibido otherwise, adds exactly one
\* general-stock record per line received with a quantity above 0 and changes no
\* record that was there, and stores receivedDate and the received quantities of
\* all lines.
C21_Receipt ==
    [][/\ ReceiveAddStock("c1") =>
            LET form == arg'["c1"].items
                lines == {i \in DOMAIN form : form[i].receivedQuantity > 0}
            IN  /\ Len(generalStock') = Len(generalStock) + Cardinality(lines)
                /\ SubSeq(generalStock', 1, Len(generalStock)) = generalStock
                /\ \A p \in {"item", "item2"}, q \in 0..2 :
                      Cardinality({i \in DOMAIN generalStock' \ DOMAIN generalStock :
                                      generalStock'[i] = [name |-> p, quantity |-> q]})
                      = Cardinality({i \in lines : form[i].name = p /\ form[i].receivedQuantity = q})
       /\ ReceiveUpdate("c1") =>
            LET form == arg["c1"].items
                id == orderToReceive["c1"].id
                after == supplierOrders'[id]
            IN  /\ after.status =
                      IF \E i \in DOMAIN form : form[i].receivedQuantity < form[i].orderedQuantity
                      THEN "Recibido (Parcial)" ELSE "Recibido"
                /\ after.receivedDate = now
                /\ Len(after.receivedItems) = Len(form)
                /\ \A i \in DOMAIN form :
                      after.receivedItems[i] =
                          [name |-> form[i].name, quantity |-> form[i].receivedQuantity]
                /\ after.items = supplierOrders[id].items
                /\ UNCHANGED generalStock]_vars

\* an order of two lines of the same name was received, the first in full and
\* the second below its ordered quantity: two records, status Recibido (Parcial)
C21_Witness ==
    /\ supplierOrders[<<"doc", 1>>].status = "Recibido (Parcial)"
    /\ supplierOrders[<<"doc", 1>>].items =
          <<[name |-> "item", quantity |-> 2], [name |-> "item", quantity |-> 2]>>
    /\ supplierOrders[<<"doc", 1>>].receivedItems =
          <<[name |-> "item", quantity |-> 2], [name |-> "item", quantity |-> 1]>>
    /\ generalStock = <<[name |-> "item", quantity |-> 2], [name |-> "item", quantity |-> 1]>>

\* C22: for every stored document, also one whose data holds an `id` field,
\* mapDocTo gives an object whose id is the id of the document in the store and
\* whose other fields are the data of the document, so that a write addressed
\* by that id reaches the document.
C22_MapDocToKeepsDocId ==
    \A coll \in {orders, billableItems} :
        \A d \in DOMAIN coll :
            LET mapped == mapDocTo(d, coll[d])
            IN  /\ mapped.id = d
                /\ \A f \in DOMAIN coll[d] \ {"id"} : mapped[f] = coll[d][f]
                /\ Exists(coll, mapped.id)

\* assigned - sold - returned of product p in a stored seller
NetConsigned(seller, p) ==
    QuantityOf(seller.assignedStock, p) - SoldQuantityOf(seller.sales, p)
    - QuantityOf(seller.returns, p)

\* C23: consigned stock never goes negative: a seller sale or a return entered
\* for a seller whose assigned - sold - returned is >= 0 for every product
\* leaves it >= 0, because the quantity entered is bounded by the consigned
\* quantity available.
C23_ConsignedNeverNegative ==
    [][(ConfirmSale("c1") \/ RegisterReturn("c1") \/ RegisterReturnSeller("c1")) =>
          \A d \in DOMAIN sellers, p \in Products :
              NetConsigned(sellers[d], p) >= 0 => NetConsigned(sellers'[d], p) >= 0]_vars

\* the quantity of product p that calculateSellerStock lists for a seller
ConsignedQuantity(seller, p) ==
    LET held == calculateSellerStock(seller, DOMAIN products)
    IN  IF p \in DOMAIN held THEN held[p] ELSE 0

\* C27: registering a direct sale leaves the consigned quantity of every
\* product of the seller, and so the value of the stock the seller holds,
\* unchanged.
C27_DirectSaleKeepsConsigned ==
    [][(ConfirmAssignmentSeller("c1") /\ arg["c1"].isDirectSale) =>
          \A d \in DOMAIN sellers :
              /\ \A p \in Products :
                    ConsignedQuantity(sellers'[d], p) = ConsignedQuantity(sellers[d], p)
              /\ newBalance(sellers'[d], products) = newBalance(sellers[d], products)]_vars

\* C28: with no seller sale, no direct sale and no 'Dañado' return, whenever no
\* handler is running the catalogue stock of a product plus the quantities of it
\* consigned to the sellers is what it was at the start.
C28_StockConservation ==
    (/\ \A c \in Clients : pc[c] = "idle"
     /\ \A d \in DOMAIN sellers :
           /\ sellers[d].sales = <<>>
           /\ \A i \in DOMAIN sellers[d].returns : sellers[d].returns[i].reason = "No vendido")
    => \A p \in DOMAIN products :
          products[p].stock
          + SumOver(DOMAIN sellers, [d \in DOMAIN sellers |-> ConsignedQuantity(sellers[d], p)])
          = InitSellerStock

\* no viewer has a balance to write, and every stored balance is the value, at
\* the prices of the catalogue, of the stock the seller holds
BalancesSettled ==
    /\ \A c \in Clients : sellers = WithBalances(sellers, productsView[c])
    /\ \A d \in DOMAIN sellers : sellers[d].balance = newBalance(sellers[d], products)

\* C25: with the sellers' assignments, sales and returns and the catalogue
\* unchanged, the write-backs of the viewers end: from some point on no viewer
\* writes a balance and every stored balance is the sum over the products of
\* consigned quantity x catalogue price.
C25_WriteBackConverges == <>[]BalancesSettled

\* both viewers have loaded, the balances are settled, and a stale balance has
\* been replaced by the value of the stock held
C25_Witness ==
    /\ BalancesSettled
    /\ \A c \in Clients : productsView[c] = products /\ sellersView[c] # {}
    /\ \E d \in DOMAIN sellers : sellers[d].balance \notin StaleBalances

\* C24: a fractioning request rejected by a precondition (raw material,
\* containers or labels insufficient, label not found) has changed no quantity
\* of general-stock.
C24_RejectedFractionChangesNothing ==
    (attempt["c1"].kind = "fraction" /\ attempt["c1"].result = "rejected")
    => generalStock = attempt["c1"].generalStock

\* C26: closing preserves the contents of the session: when the live record of
\* a session is deleted, every sale and every expense the record holds is in the
\* history record of that session.
C26_ClosePreservesContents ==
    [][\A id \in DOMAIN cajaSessions \ DOMAIN cajaSessions' :
          /\ Exists(cajaHistory', id)
          /\ ItemIds(cajaSessions[id].sales) \subseteq ItemIds(cajaHistory'[id].sales)
          /\ ItemIds(cajaSessions[id].expenses) \subseteq ItemIds(cajaHistory'[id].expenses)]_vars

\* the sales of the closed sessions that record the collection of order oid
ClosedSalesFor(oid) ==
    {<<d, j>> \in UNION {{d} \X DOMAIN cajaHistory[d].sales : d \in DOMAIN cajaHistory} :
        cajaHistory[d].sales[j].id = <<"VTA-PED", oid[2]>>}

C29_ReadStaysRead ==
    [][\A i \in DOMAIN notifications["c1"], j \in DOMAIN notifications'["c1"] :
          (/\ notifications["c1"][i].read
           /\ notifications'["c1"][j].id = notifications["c1"][i].id)
          => notifications'["c1"][j].read]_vars

====
